---- MODULE Spec2Model ----
(***************************************************************************)
(* Model of the task assignment engine of src/lib/data.ts: the worker      *)
(* registry (workers, workerMap), the task store (tasks), the two id       *)
(* counters and the localStorage snapshot, with one action per exported    *)
(* mutator.                                                                *)
(*                                                                         *)
(* Hours are modelled as integers (whole hours).  Strings that the engine  *)
(* builds or inspects character by character (ids) are sequences of        *)
(* one-character strings.                                                  *)
(*                                                                         *)
(* A call that throws before it mutates anything leaves the engine state   *)
(* unchanged; the error it throws is a function of the state it was called *)
(* in and of its arguments (AssignError for assignTaskToWorker).           *)
(***************************************************************************)
EXTENDS Integers, Sequences, FiniteSets, TLC

VARIABLES
  workers,       \* let workers: Worker[]
  tasks,         \* let tasks: Task[]
  workerMap,     \* let workerMap: Map<string, Worker>
  nextWorkerId,  \* let nextWorkerId
  nextTaskId,    \* let nextTaskId
  stored,        \* localStorage[STORAGE_KEY]
  pending,       \* assign calls issued together and not yet run
  results,       \* what each call of such a pair threw, once it has run
  returned       \* the read-only call made last and the value it returned

\* the state of the engine proper
engine == <<workers, tasks, workerMap, nextWorkerId, nextTaskId, stored>>

\* the calls in flight
calls == <<pending, results, returned>>

vars == <<workers, tasks, workerMap, nextWorkerId, nextTaskId, stored,
          pending, results, returned>>

(***************************************************************************)
(* Bounds of the model.                                                    *)
(***************************************************************************)
MaxWorkers == 2
MaxTasks == 2

(***************************************************************************)
(* Program constants.                                                      *)
(***************************************************************************)
MAX_WORK_HOURS_PER_DAY == 8

\* null, as held by task.assignedTo; distinct from every id string
Null == <<"null">>

\* localStorage.getItem(STORAGE_KEY) when nothing was ever stored
NoSnapshot == [present |-> FALSE]

\* no read-only call has returned a value that its caller still holds
NoCall == [call |-> "none"]

(***************************************************************************)
(* Inputs.                                                                 *)
(***************************************************************************)
WorkerNames == {<<"A", "n", "n">>}

\* the argument tuples handed to addTask.  addTask stores timeEstimate as
\* given (it validates nothing), so a negative estimate is among them; 8 is
\* an estimate that alone fills a day, 4 one that fills it in two tasks
TaskInputs ==
  { [description |-> <<"R", "o", "o", "m">>, priority |-> "high",
     timeEstimate |-> 8, deadline |-> 10],
    [description |-> <<"H", "a", "l", "l">>, priority |-> "medium",
     timeEstimate |-> 4, deadline |-> 5],
    [description |-> <<"M", "o", "p">>, priority |-> "low",
     timeEstimate |-> 0 - 2, deadline |-> 5] }

(***************************************************************************)
(* Identifier formatting: `${prefix}${String(n).padStart(3, '0')}`         *)
(***************************************************************************)
DigitChars == <<"0", "1", "2", "3", "4", "5", "6", "7", "8", "9">>

RECURSIVE DecimalString(_)
DecimalString(n) ==
  IF n < 10 THEN <<DigitChars[n + 1]>>
  ELSE DecimalString(n \div 10) \o <<DigitChars[(n % 10) + 1]>>

RECURSIVE PadStart(_, _, _)
PadStart(s, width, fill) ==
  IF Len(s) >= width THEN s ELSE PadStart(<<fill>> \o s, width, fill)

FormatId(prefix, n) == <<prefix>> \o PadStart(DecimalString(n), 3, "0")

\* the id arguments callers may pass: every id that can have been issued
\* within the bounds, and one that never is
WorkerIdArgs == { FormatId("W", n) : n \in 1..(MaxWorkers + 1) }
TaskIdArgs == { FormatId("T", n) : n \in 1..(MaxTasks + 1) }

(***************************************************************************)
(* Lookups.                                                                *)
(***************************************************************************)
\* tasks.find(t => t.id === taskId): index of the first match, 0 if none
FindTask(taskId) ==
  IF \E i \in 1..Len(tasks) : tasks[i].id = taskId
  THEN CHOOSE i \in 1..Len(tasks) :
         /\ tasks[i].id = taskId
         /\ \A j \in 1..(i - 1) : tasks[j].id # taskId
  ELSE 0

\* workerMap.get(id): the map holds references to the records of the workers
\* list; a reference is the record's position in that list, 0 is undefined
MapGet(id) == IF id \in DOMAIN workerMap THEN workerMap[id] ELSE 0

(***************************************************************************)
(* Persistence.                                                            *)
(***************************************************************************)
Snapshot(ws, ts, nw, nt) ==
  [present |-> TRUE, workers |-> ws, tasks |-> ts,
   nextWorkerId |-> nw, nextTaskId |-> nt]

Init ==
  /\ workers = <<>>
  /\ tasks = <<>>
  /\ workerMap = <<>>
  /\ nextWorkerId = 1
  /\ nextTaskId = 1
  /\ stored = NoSnapshot
  /\ pending = {}
  /\ results = {}
  /\ returned = NoCall

(***************************************************************************)
(* Worker registry.                                                        *)
(***************************************************************************)
NewWorker(id, name) ==
  [id |-> id, name |-> name, availability |-> TRUE, totalAssignedHours |-> 0]

\* an addWorker that does not advance the counter
AddWorker_CounterKept(name) ==
  LET id == FormatId("W", nextWorkerId)
      ws == Append(workers, NewWorker(id, name))
  IN /\ Len(workers) < MaxWorkers
     /\ workers' = ws
     /\ workerMap' = [k \in (DOMAIN workerMap) \cup {id} |->
                        IF k = id THEN Len(ws) ELSE workerMap[k]]
     /\ stored' = Snapshot(ws, tasks, nextWorkerId, nextTaskId)
     /\ UNCHANGED <<tasks, nextWorkerId, nextTaskId>>
     /\ UNCHANGED calls

AddWorker(name) ==
  LET id == FormatId("W", nextWorkerId)
      ws == Append(workers, NewWorker(id, name))
  IN /\ Len(workers) < MaxWorkers
     /\ nextWorkerId' = nextWorkerId + 1
     /\ workers' = ws
     /\ workerMap' = [k \in (DOMAIN workerMap) \cup {id} |->
                        IF k = id THEN Len(ws) ELSE workerMap[k]]
     /\ stored' = Snapshot(ws, tasks, nextWorkerId + 1, nextTaskId)
     /\ UNCHANGED <<tasks, nextTaskId>>
     /\ UNCHANGED calls

\* an updateWorkerAvailability that also clears the hours of a worker made
\* unavailable
UpdateWorkerAvailability_HoursCleared(id, availability) ==
  /\ UNCHANGED calls
  /\ LET w == MapGet(id)
     IN IF w = 0
        THEN UNCHANGED engine
        ELSE LET ws == [workers EXCEPT
                          ![w].availability = availability,
                          ![w].totalAssignedHours =
                             IF availability THEN @ ELSE 0]
             IN /\ workers' = ws
                /\ stored' = Snapshot(ws, tasks, nextWorkerId, nextTaskId)
                /\ UNCHANGED <<tasks, workerMap, nextWorkerId, nextTaskId>>

UpdateWorkerAvailability(id, availability) ==
  /\ UNCHANGED calls
  /\ LET w == MapGet(id)
     IN IF w = 0
        THEN UNCHANGED engine
        ELSE LET ws == [workers EXCEPT ![w].availability = availability]
             IN /\ workers' = ws
                /\ stored' = Snapshot(ws, tasks, nextWorkerId, nextTaskId)
                /\ UNCHANGED <<tasks, workerMap, nextWorkerId, nextTaskId>>

(***************************************************************************)
(* Task store.                                                             *)
(***************************************************************************)
NewTask(id, input) ==
  [id |-> id, description |-> input.description, priority |-> input.priority,
   timeEstimate |-> input.timeEstimate, deadline |-> input.deadline,
   assignedTo |-> Null, completed |-> FALSE]

AddTask(input) ==
  LET id == FormatId("T", nextTaskId)
      ts == Append(tasks, NewTask(id, input))
  IN /\ Len(tasks) < MaxTasks
     /\ nextTaskId' = nextTaskId + 1
     /\ tasks' = ts
     /\ stored' = Snapshot(workers, ts, nextWorkerId, nextTaskId + 1)
     /\ UNCHANGED <<workers, workerMap, nextWorkerId>>
     /\ UNCHANGED calls

(***************************************************************************)
(* Assignment engine.                                                      *)
(***************************************************************************)
\* a capacity check that also rejects a worker reaching the ceiling exactly
ExceedsMaximumHours_AtCeiling(worker, task) ==
  worker.totalAssignedHours + task.timeEstimate >= MAX_WORK_HOURS_PER_DAY

\* worker.totalAssignedHours + task.timeEstimate > MAX_WORK_HOURS_PER_DAY
ExceedsMaximumHours(worker, task) ==
  worker.totalAssignedHours + task.timeEstimate > MAX_WORK_HOURS_PER_DAY

\* a reassignment that forgets to credit the previous worker
ReleasePrevious_Forgotten(ws, task) == ws

\* if (task.assignedTo) { prevWorker = workerMap.get(task.assignedTo);
\*   if (prevWorker) prevWorker.totalAssignedHours -= task.timeEstimate }
ReleasePrevious(ws, task) ==
  IF task.assignedTo # Null /\ MapGet(task.assignedTo) # 0
  THEN [ws EXCEPT ![MapGet(task.assignedTo)].totalAssignedHours =
                    @ - task.timeEstimate]
  ELSE ws

\* an assignment whose addition of the hours is lost
AddHours_Lost(ws, w, task) == ws

\* an assignment that overwrites the worker's hours instead of adding to them
AddHours_Overwritten(ws, w, task) ==
  [ws EXCEPT ![w].totalAssignedHours = task.timeEstimate]

\* worker.totalAssignedHours += task.timeEstimate
AddHours(ws, w, task) ==
  [ws EXCEPT ![w].totalAssignedHours = @ + task.timeEstimate]

\* guards that also require the worker holding the task to be available
AssignError_HolderChecked(t, w) ==
  IF t = 0 THEN "task_not_found"
  ELSE IF w = 0 THEN "worker_not_found"
  ELSE IF ~workers[w].availability THEN "not_available"
  ELSE IF tasks[t].assignedTo # Null /\ MapGet(tasks[t].assignedTo) # 0
          /\ ~workers[MapGet(tasks[t].assignedTo)].availability
    THEN "not_available"
  ELSE IF ExceedsMaximumHours(workers[w], tasks[t]) THEN "exceeds_maximum_hours"
  ELSE "none"

\* guards without the availability check
AssignError_AvailabilityIgnored(t, w) ==
  IF t = 0 THEN "task_not_found"
  ELSE IF w = 0 THEN "worker_not_found"
  ELSE IF ExceedsMaximumHours(workers[w], tasks[t]) THEN "exceeds_maximum_hours"
  ELSE "none"

\* guards that check the capacity before the availability
AssignError_CapacityFirst(t, w) ==
  IF t = 0 THEN "task_not_found"
  ELSE IF w = 0 THEN "worker_not_found"
  ELSE IF ExceedsMaximumHours(workers[w], tasks[t]) THEN "exceeds_maximum_hours"
  ELSE IF ~workers[w].availability THEN "not_available"
  ELSE "none"

\* guards that also refuse a task that is completed
AssignError_CompletedLocked(t, w) ==
  IF t = 0 THEN "task_not_found"
  ELSE IF tasks[t].completed THEN "task_completed"
  ELSE IF w = 0 THEN "worker_not_found"
  ELSE IF ~workers[w].availability THEN "not_available"
  ELSE IF ExceedsMaximumHours(workers[w], tasks[t]) THEN "exceeds_maximum_hours"
  ELSE "none"

\* the first guard of assignTaskToWorker that throws, "none" if none does
AssignError(t, w) ==
  IF t = 0 THEN "task_not_found"
  ELSE IF w = 0 THEN "worker_not_found"
  ELSE IF ~workers[w].availability THEN "not_available"
  ELSE IF ExceedsMaximumHours(workers[w], tasks[t]) THEN "exceeds_maximum_hours"
  ELSE "none"

\* an assignTaskToWorker that binds the task before its capacity check, so
\* that a capacity rejection leaves the task bound and the hours untouched
Assign_BoundBeforeCheck(taskId, workerId) ==
  LET t == FindTask(taskId)
      w == MapGet(workerId)
      error == AssignError(t, w)
  IN IF error = "exceeds_maximum_hours"
     THEN /\ tasks' = [tasks EXCEPT ![t].assignedTo = workerId]
          /\ UNCHANGED <<workers, workerMap, nextWorkerId, nextTaskId, stored>>
     ELSE IF error # "none"
     THEN UNCHANGED engine
     ELSE LET ws == AddHours(ReleasePrevious(workers, tasks[t]), w, tasks[t])
              ts == [tasks EXCEPT ![t].assignedTo = workerId]
          IN /\ workers' = ws
             /\ tasks' = ts
             /\ stored' = Snapshot(ws, ts, nextWorkerId, nextTaskId)
             /\ UNCHANGED <<workerMap, nextWorkerId, nextTaskId>>

\* an assignTaskToWorker that, for a task the worker already holds, adds
\* the hours without having released them
Assign_SameWorkerRecounted(taskId, workerId) ==
  LET t == FindTask(taskId)
      w == MapGet(workerId)
      error == AssignError(t, w)
  IN IF error # "none"
     THEN UNCHANGED engine
     ELSE LET released == IF tasks[t].assignedTo = workerId
                          THEN workers
                          ELSE ReleasePrevious(workers, tasks[t])
              ws == AddHours(released, w, tasks[t])
              ts == [tasks EXCEPT ![t].assignedTo = workerId]
          IN /\ workers' = ws
             /\ tasks' = ts
             /\ stored' = Snapshot(ws, ts, nextWorkerId, nextTaskId)
             /\ UNCHANGED <<workerMap, nextWorkerId, nextTaskId>>

\* an assignTaskToWorker that binds the task to the id it was given when
\* no worker carries that id
Assign_UnknownWorkerBound(taskId, workerId) ==
  LET t == FindTask(taskId)
      w == MapGet(workerId)
      error == AssignError(t, w)
  IN IF error = "worker_not_found"
     THEN LET ws == ReleasePrevious(workers, tasks[t])
              ts == [tasks EXCEPT ![t].assignedTo = workerId]
          IN /\ workers' = ws
             /\ tasks' = ts
             /\ stored' = Snapshot(ws, ts, nextWorkerId, nextTaskId)
             /\ UNCHANGED <<workerMap, nextWorkerId, nextTaskId>>
     ELSE IF error # "none"
     THEN UNCHANGED engine
     ELSE LET ws == AddHours(ReleasePrevious(workers, tasks[t]), w, tasks[t])
              ts == [tasks EXCEPT ![t].assignedTo = workerId]
          IN /\ workers' = ws
             /\ tasks' = ts
             /\ stored' = Snapshot(ws, ts, nextWorkerId, nextTaskId)
             /\ UNCHANGED <<workerMap, nextWorkerId, nextTaskId>>

\* the body of assignTaskToWorker, on the engine state
Assign(taskId, workerId) ==
  LET t == FindTask(taskId)
      w == MapGet(workerId)
      error == AssignError(t, w)
  IN IF error # "none"
     THEN UNCHANGED engine
     ELSE LET ws == AddHours(ReleasePrevious(workers, tasks[t]), w, tasks[t])
              ts == [tasks EXCEPT ![t].assignedTo = workerId]
          IN /\ workers' = ws
             /\ tasks' = ts
             /\ stored' = Snapshot(ws, ts, nextWorkerId, nextTaskId)
             /\ UNCHANGED <<workerMap, nextWorkerId, nextTaskId>>

AssignTaskToWorker(taskId, workerId) ==
  Assign(taskId, workerId) /\ UNCHANGED calls

\* an unassignTask that unbinds the task and leaves the worker's hours as
\* they were
UnassignTask_HoursKept(taskId) ==
  /\ UNCHANGED calls
  /\ LET t == FindTask(taskId)
     IN IF t = 0
        THEN UNCHANGED engine
        ELSE IF tasks[t].assignedTo = Null
        THEN UNCHANGED engine
        ELSE LET ts == [tasks EXCEPT ![t].assignedTo = Null]
             IN /\ tasks' = ts
                /\ stored' = Snapshot(workers, ts, nextWorkerId, nextTaskId)
                /\ UNCHANGED <<workers, workerMap, nextWorkerId, nextTaskId>>

\* an unassignTask that also reopens the task it unbinds
UnassignTask_Reopened(taskId) ==
  /\ UNCHANGED calls
  /\ LET t == FindTask(taskId)
     IN IF t = 0
        THEN UNCHANGED engine
        ELSE IF tasks[t].assignedTo = Null
        THEN UNCHANGED engine
        ELSE LET ws == ReleasePrevious(workers, tasks[t])
                 ts == [tasks EXCEPT ![t].assignedTo = Null,
                                     ![t].completed = FALSE]
             IN /\ workers' = ws
                /\ tasks' = ts
                /\ stored' = Snapshot(ws, ts, nextWorkerId, nextTaskId)
                /\ UNCHANGED <<workerMap, nextWorkerId, nextTaskId>>

UnassignTask(taskId) ==
  /\ UNCHANGED calls
  /\ LET t == FindTask(taskId)
     IN IF t = 0
        THEN UNCHANGED engine
        ELSE IF tasks[t].assignedTo = Null
        THEN UNCHANGED engine
        ELSE LET ws == ReleasePrevious(workers, tasks[t])
                 ts == [tasks EXCEPT ![t].assignedTo = Null]
             IN /\ workers' = ws
                /\ tasks' = ts
                /\ stored' = Snapshot(ws, ts, nextWorkerId, nextTaskId)
                /\ UNCHANGED <<workerMap, nextWorkerId, nextTaskId>>

\* a completion that also unbinds the task from its worker
MarkCompleted_Unbound(task) ==
  [task EXCEPT !.completed = TRUE, !.assignedTo = Null]

\* a completion that toggles the flag
MarkCompleted_Toggled(task) == [task EXCEPT !.completed = ~@]

\* task.completed = true
MarkCompleted(task) == [task EXCEPT !.completed = TRUE]

\* a completeTask that gives the hours of the task back to its worker
CompleteTask_HoursReleased(taskId) ==
  /\ UNCHANGED calls
  /\ LET t == FindTask(taskId)
     IN IF t = 0
        THEN UNCHANGED engine
        ELSE LET ws == IF tasks[t].completed THEN workers
                       ELSE ReleasePrevious(workers, tasks[t])
                 ts == [tasks EXCEPT ![t] = MarkCompleted(@)]
             IN /\ workers' = ws
                /\ tasks' = ts
                /\ stored' = Snapshot(ws, ts, nextWorkerId, nextTaskId)
                /\ UNCHANGED <<workerMap, nextWorkerId, nextTaskId>>

\* a completeTask that does not save
CompleteTask_NotSaved(taskId) ==
  /\ UNCHANGED calls
  /\ LET t == FindTask(taskId)
     IN IF t = 0
        THEN UNCHANGED engine
        ELSE /\ tasks' = [tasks EXCEPT ![t] = MarkCompleted(@)]
             /\ UNCHANGED <<workers, workerMap, nextWorkerId, nextTaskId,
                            stored>>

CompleteTask(taskId) ==
  /\ UNCHANGED calls
  /\ LET t == FindTask(taskId)
     IN IF t = 0
        THEN UNCHANGED engine
        ELSE LET ts == [tasks EXCEPT ![t] = MarkCompleted(@)]
             IN /\ tasks' = ts
                /\ stored' = Snapshot(workers, ts, nextWorkerId, nextTaskId)
                /\ UNCHANGED <<workers, workerMap, nextWorkerId, nextTaskId>>

(***************************************************************************)
(* Specification: any sequence of engine calls from the empty state.       *)
(***************************************************************************)
EngineCall ==
  \/ \E name \in WorkerNames : AddWorker(name)
  \/ \E id \in WorkerIdArgs, availability \in BOOLEAN :
       UpdateWorkerAvailability(id, availability)
  \/ \E input \in TaskInputs : AddTask(input)
  \/ \E taskId \in TaskIdArgs, workerId \in WorkerIdArgs :
       AssignTaskToWorker(taskId, workerId)
  \/ \E taskId \in TaskIdArgs : UnassignTask(taskId)
  \/ \E taskId \in TaskIdArgs : CompleteTask(taskId)

Next == EngineCall

Spec == Init /\ [][Next]_vars

(***************************************************************************)
(* Two assign calls issued together.  assignTaskToWorker is synchronous    *)
(* (no await between its guards and its writes), so the event loop runs    *)
(* each call to completion, in either order.  The pairs issued are those   *)
(* competing for one worker: two different tasks, one available worker,    *)
(* each task fits alone and both together do not.                          *)
(***************************************************************************)
\* a call as issued: its arguments, and the worker holding the task then
IssuedCall(t, w) ==
  [taskId |-> tasks[t].id, workerId |-> workers[w].id,
   holder |-> tasks[t].assignedTo]

Competing(t1, t2, w) ==
  /\ t1 # t2
  /\ workers[w].availability
  /\ workers[w].totalAssignedHours + tasks[t1].timeEstimate
       <= MAX_WORK_HOURS_PER_DAY
  /\ workers[w].totalAssignedHours + tasks[t2].timeEstimate
       <= MAX_WORK_HOURS_PER_DAY
  /\ workers[w].totalAssignedHours + tasks[t1].timeEstimate
       + tasks[t2].timeEstimate > MAX_WORK_HOURS_PER_DAY

IssuePair(t1, t2, w) ==
  /\ pending = {}
  /\ results = {}
  /\ Competing(t1, t2, w)
  /\ pending' = {IssuedCall(t1, w), IssuedCall(t2, w)}
  /\ UNCHANGED <<results, returned>>
  /\ UNCHANGED engine

\* the event loop runs one of the issued calls to completion
RunPending(call) ==
  /\ call \in pending
  /\ Assign(call.taskId, call.workerId)
  /\ pending' = pending \ {call}
  /\ results' = results \cup
       {[call |-> call,
         thrown |-> AssignError(FindTask(call.taskId), MapGet(call.workerId))]}
  /\ UNCHANGED returned

\* other engine calls are made while no pair is in flight
SoloCall ==
  /\ pending = {}
  /\ results = {}
  /\ EngineCall

NextConcurrent ==
  \/ SoloCall
  \/ \E t1, t2 \in 1..Len(tasks), w \in 1..Len(workers) : IssuePair(t1, t2, w)
  \/ \E call \in pending : RunPending(call)

SpecConcurrent == Init /\ [][NextConcurrent]_vars

(***************************************************************************)
(* The snapshot as text.  JSON.stringify turns the data into a text and    *)
(* JSON.parse turns a text back into values; a text is modelled by its     *)
(* syntax tree, a node [t |-> kind, v |-> content], an object being the    *)
(* sequence of its members in the order written.                           *)
(***************************************************************************)
JsonString(s) == [t |-> "string", v |-> s]
JsonNumber(n) == [t |-> "number", v |-> n]
JsonBoolean(b) == [t |-> "boolean", v |-> b]
JsonNull == [t |-> "null", v |-> Null]
JsonArray(items) == [t |-> "array", v |-> items]
JsonObject(members) == [t |-> "object", v |-> members]
JsonMember(key, node) == [key |-> key, value |-> node]

\* a text that JSON.parse rejects with a SyntaxError
Unparseable == [t |-> "invalid", v |-> Null]

\* the empty string
EmptyText == [t |-> "empty", v |-> Null]

\* what getItem returns when the store has no item: null, not a text
NoItem == [t |-> "none", v |-> Null]

\* what reading a property that is not there gives
Undefined == [t |-> "undefined", v |-> Null]

\* JSON.stringify(worker)
StringifyWorker(w) ==
  JsonObject(<<JsonMember("id", JsonString(w.id)),
               JsonMember("name", JsonString(w.name)),
               JsonMember("availability", JsonBoolean(w.availability)),
               JsonMember("totalAssignedHours",
                          JsonNumber(w.totalAssignedHours))>>)

\* JSON.stringify(task)
StringifyTask(task) ==
  JsonObject(<<JsonMember("id", JsonString(task.id)),
               JsonMember("description", JsonString(task.description)),
               JsonMember("priority", JsonString(task.priority)),
               JsonMember("timeEstimate", JsonNumber(task.timeEstimate)),
               JsonMember("deadline", JsonString(task.deadline)),
               JsonMember("assignedTo",
                          IF task.assignedTo = Null THEN JsonNull
                          ELSE JsonString(task.assignedTo)),
               JsonMember("completed", JsonBoolean(task.completed))>>)

\* JSON.stringify(data) of saveData
JsonStringify(data) ==
  JsonObject(<<JsonMember("workers",
                 JsonArray([i \in 1..Len(data.workers) |->
                              StringifyWorker(data.workers[i])])),
               JsonMember("tasks",
                 JsonArray([i \in 1..Len(data.tasks) |->
                              StringifyTask(data.tasks[i])])),
               JsonMember("nextWorkerId", JsonNumber(data.nextWorkerId)),
               JsonMember("nextTaskId", JsonNumber(data.nextTaskId))>>)

\* node.key on a parsed text: the last member of that key, undefined if
\* there is none or if the node is not an object
Member(node, key) ==
  IF node.t = "object" /\ \E i \in 1..Len(node.v) : node.v[i].key = key
  THEN node.v[CHOOSE i \in 1..Len(node.v) :
                /\ node.v[i].key = key
                /\ \A j \in (i + 1)..Len(node.v) : node.v[j].key # key].value
  ELSE Undefined

\* the value a parsed node stands for
RECURSIVE JsValue(_)
JsValue(node) ==
  CASE node.t = "array" -> [i \in 1..Len(node.v) |-> JsValue(node.v[i])]
    [] node.t = "object" ->
         [k \in {node.v[i].key : i \in 1..Len(node.v)} |->
            JsValue(Member(node, k))]
    [] OTHER -> node.v

\* whether `node || fallback` keeps node
Truthy(node) ==
  CASE node.t \in {"undefined", "null"} -> FALSE
    [] node.t = "boolean" -> node.v
    [] node.t = "number" -> node.v # 0
    [] node.t = "string" -> node.v # <<>>
    [] OTHER -> TRUE

\* localStorage.getItem(STORAGE_KEY): the text last stored, which saveData
\* makes from its data; a text put there from outside is held as it is
GetItem ==
  IF ~stored.present THEN NoItem
  ELSE IF "text" \in DOMAIN stored THEN stored.text
  ELSE JsonStringify(stored)

\* if (stored): getItem returned a text, and not the empty one
HasText(text) == text.t \notin {"none", "empty"}

\* whether the try block of initializeData throws on this text: JSON.parse
\* rejects it, it parses to null (parsed.workers throws), its workers is not
\* an array (workers.forEach throws) or holds a null (worker.id throws)
LoadThrows(text) ==
  \/ text.t = "invalid"
  \/ text.t = "null"
  \/ LET ws == Member(text, "workers")
     IN /\ Truthy(ws)
        /\ \/ ws.t # "array"
           \/ \E i \in 1..Len(ws.v) : ws.v[i].t = "null"

\* a load that clears the index and does not fill it again
IndexWorkers_Cleared(ws) == <<>>

\* workerMap.clear(); workers.forEach(worker => workerMap.set(worker.id,
\* worker)): each id maps to the last worker carrying it
IndexWorkers(ws) ==
  [id \in {ws[i].id : i \in 1..Len(ws)} |->
     CHOOSE i \in 1..Len(ws) :
       /\ ws[i].id = id
       /\ \A j \in (i + 1)..Len(ws) : ws[j].id # id]

\* a load that restores the lists and leaves the counters at 1
LoadedCounter_Forgotten(text, key) == 1

\* parsed.nextWorkerId || 1, parsed.nextTaskId || 1 (the member is looked
\* up once, as node)
LoadedCounter(text, key) ==
  CHOOSE value \in {IF Truthy(node) THEN JsValue(node) ELSE 1 :
                     node \in {Member(text, key)}} : TRUE

\* parsed.workers || [], parsed.tasks || []
LoadedList(text, key) ==
  CHOOSE value \in {IF Truthy(node) THEN JsValue(node) ELSE <<>> :
                     node \in {Member(text, key)}} : TRUE

InitializeData ==
  /\ UNCHANGED calls
  /\ UNCHANGED stored
  /\ \E text \in {GetItem} :
        IF ~HasText(text)
        THEN UNCHANGED <<workers, tasks, workerMap, nextWorkerId, nextTaskId>>
        ELSE IF LoadThrows(text)
        THEN /\ workers' = <<>>
             /\ tasks' = <<>>
             /\ workerMap' = <<>>
             /\ nextWorkerId' = 1
             /\ nextTaskId' = 1
        ELSE /\ workers' = LoadedList(text, "workers")
             /\ workerMap' = IndexWorkers(workers')
             /\ tasks' = LoadedList(text, "tasks")
             /\ nextWorkerId' = LoadedCounter(text, "nextWorkerId")
             /\ nextTaskId' = LoadedCounter(text, "nextTaskId")

SaveData ==
  /\ stored' = Snapshot(workers, tasks, nextWorkerId, nextTaskId)
  /\ UNCHANGED <<workers, tasks, workerMap, nextWorkerId, nextTaskId>>
  /\ UNCHANGED calls

(***************************************************************************)
(* The engine with its persistence calls: the pages call initializeData    *)
(* each time they mount, between any two engine calls.                     *)
(***************************************************************************)
NextReload ==
  \/ EngineCall
  \/ SaveData
  \/ InitializeData

SpecReload == Init /\ [][NextReload]_vars

(***************************************************************************)
(* A store that is also written from outside the engine (another tab, an   *)
(* older build, the browser's tools): texts that are not the engine's own  *)
(* snapshot, and removal of the item.                                      *)
(***************************************************************************)
\* '{"workers":[{"id":"W001","name":...,"availability":true,
\*   "totalAssignedHours":0}]}': a snapshot with its workers and nothing else
PartialSnapshot ==
  JsonObject(<<JsonMember("workers",
                 JsonArray(<<StringifyWorker(
                               NewWorker(FormatId("W", 1),
                                         <<"A", "n", "n">>))>>))>>)

\* '{"workers":5,"tasks":[],"nextWorkerId":2,"nextTaskId":1}'
CorruptSnapshot ==
  JsonObject(<<JsonMember("workers", JsonNumber(5)),
               JsonMember("tasks", JsonArray(<<>>)),
               JsonMember("nextWorkerId", JsonNumber(2)),
               JsonMember("nextTaskId", JsonNumber(1))>>)

\* the texts found in the store that saveData did not write: '', a text
\* that is not JSON, 'null', '{}', a partial and a corrupt snapshot
ForeignTexts ==
  {EmptyText, Unparseable, JsonNull, JsonObject(<<>>),
   PartialSnapshot, CorruptSnapshot}

\* localStorage.setItem(STORAGE_KEY, text), not by saveData
StorageWritten(text) ==
  /\ stored' = [present |-> TRUE, text |-> text]
  /\ UNCHANGED <<workers, tasks, workerMap, nextWorkerId, nextTaskId>>
  /\ UNCHANGED calls

\* localStorage.removeItem(STORAGE_KEY), or the site data cleared
StorageCleared ==
  /\ stored' = NoSnapshot
  /\ UNCHANGED <<workers, tasks, workerMap, nextWorkerId, nextTaskId>>
  /\ UNCHANGED calls

NextForeign ==
  \/ EngineCall
  \/ SaveData
  \/ InitializeData
  \/ \E text \in ForeignTexts : StorageWritten(text)
  \/ StorageCleared

SpecForeign == Init /\ [][NextForeign]_vars

(***************************************************************************)
(* A store that refuses every write (quota exceeded, storage disabled):    *)
(* localStorage.setItem throws, saveData rethrows 'Failed to save data',   *)
(* and the mutator that called it last ends with that error.  Each mutator *)
(* has written the engine state before it calls saveData.  A call that     *)
(* throws before reaching saveData does what it does with a working store  *)
(* (nothing), and is left out here.                                        *)
(***************************************************************************)
AddWorkerSaveFails(name) ==
  LET id == FormatId("W", nextWorkerId)
      ws == Append(workers, NewWorker(id, name))
  IN /\ Len(workers) < MaxWorkers
     /\ nextWorkerId' = nextWorkerId + 1
     /\ workers' = ws
     /\ workerMap' = [k \in (DOMAIN workerMap) \cup {id} |->
                        IF k = id THEN Len(ws) ELSE workerMap[k]]
     /\ UNCHANGED <<tasks, nextTaskId, stored>>
     /\ UNCHANGED calls

UpdateWorkerAvailabilitySaveFails(id, availability) ==
  /\ UNCHANGED calls
  /\ MapGet(id) # 0
  /\ workers' = [workers EXCEPT ![MapGet(id)].availability = availability]
  /\ UNCHANGED <<tasks, workerMap, nextWorkerId, nextTaskId, stored>>

AddTaskSaveFails(input) ==
  /\ Len(tasks) < MaxTasks
  /\ nextTaskId' = nextTaskId + 1
  /\ tasks' = Append(tasks, NewTask(FormatId("T", nextTaskId), input))
  /\ UNCHANGED <<workers, workerMap, nextWorkerId, stored>>
  /\ UNCHANGED calls

\* an assignTaskToWorker that undoes its writes when saveData fails
AssignTaskToWorkerSaveFails_RolledBack(taskId, workerId) ==
  /\ AssignError(FindTask(taskId), MapGet(workerId)) = "none"
  /\ UNCHANGED engine
  /\ UNCHANGED calls

AssignTaskToWorkerSaveFails(taskId, workerId) ==
  LET t == FindTask(taskId)
      w == MapGet(workerId)
  IN /\ UNCHANGED calls
     /\ AssignError(t, w) = "none"
     /\ workers' = AddHours(ReleasePrevious(workers, tasks[t]), w, tasks[t])
     /\ tasks' = [tasks EXCEPT ![t].assignedTo = workerId]
     /\ UNCHANGED <<workerMap, nextWorkerId, nextTaskId, stored>>

UnassignTaskSaveFails(taskId) ==
  LET t == FindTask(taskId)
  IN /\ UNCHANGED calls
     /\ t # 0
     /\ tasks[t].assignedTo # Null
     /\ workers' = ReleasePrevious(workers, tasks[t])
     /\ tasks' = [tasks EXCEPT ![t].assignedTo = Null]
     /\ UNCHANGED <<workerMap, nextWorkerId, nextTaskId, stored>>

CompleteTaskSaveFails(taskId) ==
  LET t == FindTask(taskId)
  IN /\ UNCHANGED calls
     /\ t # 0
     /\ tasks' = [tasks EXCEPT ![t] = MarkCompleted(@)]
     /\ UNCHANGED <<workers, workerMap, nextWorkerId, nextTaskId, stored>>

\* an engine call whose saveData fails
EngineCallSaveFails ==
  \/ \E name \in WorkerNames : AddWorkerSaveFails(name)
  \/ \E id \in WorkerIdArgs, availability \in BOOLEAN :
       UpdateWorkerAvailabilitySaveFails(id, availability)
  \/ \E input \in TaskInputs : AddTaskSaveFails(input)
  \/ \E taskId \in TaskIdArgs, workerId \in WorkerIdArgs :
       AssignTaskToWorkerSaveFails(taskId, workerId)
  \/ \E taskId \in TaskIdArgs : UnassignTaskSaveFails(taskId)
  \/ \E taskId \in TaskIdArgs : CompleteTaskSaveFails(taskId)

NextSaveFails == EngineCallSaveFails

SpecSaveFails == Init /\ [][NextSaveFails]_vars

(***************************************************************************)
(* The engine called with any argument its signatures allow: addWorker     *)
(* takes any string, the empty one included, and addTask any description   *)
(* and any number of hours.                                                *)
(***************************************************************************)
WorkerNameArgs == WorkerNames \cup {<<>>}

TaskInputArgs ==
  TaskInputs \cup
    { [description |-> <<>>, priority |-> "low",
       timeEstimate |-> 4, deadline |-> 5],
      [description |-> <<"L", "o", "f", "t">>, priority |-> "high",
       timeEstimate |-> 9, deadline |-> 10] }

NextAnyInput ==
  \/ EngineCall
  \/ \E name \in WorkerNameArgs : AddWorker(name)
  \/ \E input \in TaskInputArgs : AddTask(input)

SpecAnyInput == Init /\ [][NextAnyInput]_vars

(***************************************************************************)
(* Query layer: the read-only calls.  A call leaves the value it returns   *)
(* in `returned`, next to its arguments; the next call, read-only or not, *)
(* is made once the caller has let go of that value.                       *)
(***************************************************************************)
\* the caller drops the value it was returned
Return ==
  /\ returned # NoCall
  /\ returned' = NoCall
  /\ UNCHANGED <<engine, pending, results>>

\* the engine calls, made while no returned value is held
QuietCall ==
  /\ returned = NoCall
  /\ EngineCall

\* a test that also passes a worker whose day is exactly full
IsAvailable_AtCeiling(worker) ==
  worker.availability /\ worker.totalAssignedHours <= MAX_WORK_HOURS_PER_DAY

\* worker => worker.availability &&
\*           worker.totalAssignedHours < MAX_WORK_HOURS_PER_DAY
IsAvailable(worker) ==
  worker.availability /\ worker.totalAssignedHours < MAX_WORK_HOURS_PER_DAY

\* workers.filter(...)
GetAvailableWorkers == SelectSeq(workers, IsAvailable)

GetAvailableWorkersCall ==
  /\ returned = NoCall
  /\ returned' = [call |-> "getAvailableWorkers",
                  value |-> GetAvailableWorkers]
  /\ UNCHANGED <<engine, pending, results>>

NextListing ==
  \/ QuietCall
  \/ GetAvailableWorkersCall
  \/ Return

SpecListing == Init /\ [][NextListing]_vars

(***************************************************************************)
(* Sorting.  The arrays handed to the sorting and filtering functions are  *)
(* lists of task records, each record at most once, of at most MaxListLen  *)
(* elements.  A deadline is a date, held as its number of days; getTime()  *)
(* gives it in milliseconds.                                               *)
(***************************************************************************)
MaxListLen == 3

SampleTask(n, priority, deadline, assignedTo, completed) ==
  [NewTask(FormatId("T", n),
           [description |-> <<"R", "o", "o", "m">>, priority |-> priority,
            timeEstimate |-> 1, deadline |-> deadline])
     EXCEPT !.assignedTo = assignedTo, !.completed = completed]

SampleTasks ==
  { SampleTask(1, "high", 10, Null, FALSE),
    SampleTask(2, "high", 5, FormatId("W", 1), FALSE),
    SampleTask(3, "low", 1, Null, TRUE),
    SampleTask(4, "high", 10, FormatId("W", 1), TRUE),
    SampleTask(5, "medium", 5, FormatId("W", 2), FALSE),
    SampleTask(6, "low", 1, Null, FALSE),
    SampleTask(7, "medium", 10, Null, TRUE),
    SampleTask(8, "low", 5, FormatId("W", 2), TRUE) }

TaskLists ==
  UNION { { list \in [1..n -> SampleTasks] :
              \A i, j \in 1..n : list[i] = list[j] => i = j }
          : n \in 0..MaxListLen }

PRIORITY_WEIGHTS == [high |-> 3, medium |-> 2, low |-> 1]

MsPerDay == 86400000

\* new Date(deadline).getTime()
GetTime(deadline) == deadline * MsPerDay

\* a comparator that leaves tasks of one priority in the order they came
ComparePriority_DeadlineIgnored(a, b) ==
  PRIORITY_WEIGHTS[b.priority] - PRIORITY_WEIGHTS[a.priority]

\* the comparator of sortTasksByPriority
ComparePriority(a, b) ==
  LET priorityDiff ==
        PRIORITY_WEIGHTS[b.priority] - PRIORITY_WEIGHTS[a.priority]
  IN IF priorityDiff # 0
     THEN priorityDiff
     ELSE GetTime(a.deadline) - GetTime(b.deadline)

\* Array.prototype.sort is stable: an element goes in front of the first
\* element that the comparator places after it, and behind all others
InsertByPriority(sorted, task) ==
  LET later == { k \in 1..Len(sorted) : ComparePriority(sorted[k], task) > 0 }
      at == IF later = {}
            THEN Len(sorted) + 1
            ELSE CHOOSE k \in later : \A l \in later : k <= l
  IN SubSeq(sorted, 1, at - 1) \o <<task>> \o SubSeq(sorted, at, Len(sorted))

RECURSIVE SortedPrefix(_, _)
SortedPrefix(list, n) ==
  IF n = 0 THEN <<>>
  ELSE InsertByPriority(SortedPrefix(list, n - 1), list[n])

\* [...tasks].sort(comparator): the copy is sorted
SortTasksByPriority(list) == SortedPrefix(list, Len(list))

\* the call leaves the array it was given, as it is after the call, next to
\* the array it returns
SortTasksByPriorityCall(list) ==
  /\ returned' = [call |-> "sortTasksByPriority", given |-> list,
                  argument |-> list, value |-> SortTasksByPriority(list)]
  /\ UNCHANGED <<engine, pending, results>>

NextSort ==
  \/ /\ returned = NoCall
     /\ \E list \in TaskLists : SortTasksByPriorityCall(list)
  \/ Return

SpecSort == Init /\ [][NextSort]_vars

(***************************************************************************)
(* Searching.  Strings are sequences of one-character strings.             *)
(***************************************************************************)
UpperChars ==
  <<"A", "B", "C", "D", "E", "F", "G", "H", "I", "J", "K", "L", "M",
    "N", "O", "P", "Q", "R", "S", "T", "U", "V", "W", "X", "Y", "Z">>

LowerChars ==
  <<"a", "b", "c", "d", "e", "f", "g", "h", "i", "j", "k", "l", "m",
    "n", "o", "p", "q", "r", "s", "t", "u", "v", "w", "x", "y", "z">>

ToLowerChar(c) ==
  IF \E k \in DOMAIN UpperChars : UpperChars[k] = c
  THEN LowerChars[CHOOSE k \in DOMAIN UpperChars : UpperChars[k] = c]
  ELSE c

\* String.prototype.toLowerCase
ToLowerCase(str) == [k \in 1..Len(str) |-> ToLowerChar(str[k])]

\* String.prototype.includes
Includes(str, searchString) ==
  \E k \in 0..(Len(str) - Len(searchString)) :
    SubSeq(str, k + 1, k + Len(searchString)) = searchString

\* the queries handed to searchTasks: "room", "O", "t00", "W001", "ll" and
\* the empty string
SearchQueries ==
  { <<"r", "o", "o", "m">>, <<"O">>, <<"t", "0", "0">>,
    <<"W", "0", "0", "1">>, <<"l", "l">>, <<>> }

\* a test that reads a null assignedTo as the text "null"
Matches_NullAsText(task, lowercaseQuery) ==
  \/ Includes(ToLowerCase(task.description), lowercaseQuery)
  \/ Includes(ToLowerCase(task.id), lowercaseQuery)
  \/ Includes(ToLowerCase(IF task.assignedTo = Null
                          THEN <<"n", "u", "l", "l">>
                          ELSE task.assignedTo), lowercaseQuery)

\* the test of the filter in searchTasks
Matches(task, lowercaseQuery) ==
  \/ Includes(ToLowerCase(task.description), lowercaseQuery)
  \/ Includes(ToLowerCase(task.id), lowercaseQuery)
  \/ /\ task.assignedTo # Null
     /\ Includes(ToLowerCase(task.assignedTo), lowercaseQuery)

SearchTasks(query) ==
  LET lowercaseQuery == ToLowerCase(query)
      Test(task) == Matches(task, lowercaseQuery)
  IN SelectSeq(tasks, Test)

SearchTasksCall(query) ==
  /\ returned = NoCall
  /\ returned' = [call |-> "searchTasks", query |-> query,
                  value |-> SearchTasks(query)]
  /\ UNCHANGED <<engine, pending, results>>

\* the engine calls that write what searchTasks reads (description, id and
\* assignedTo of the tasks), made while no returned value is held
StoreCall ==
  /\ returned = NoCall
  /\ \/ \E name \in WorkerNames : AddWorker(name)
     \/ \E input \in TaskInputs : AddTask(input)
     \/ \E taskId \in TaskIdArgs, workerId \in WorkerIdArgs :
          AssignTaskToWorker(taskId, workerId)
     \/ \E taskId \in TaskIdArgs : UnassignTask(taskId)

NextSearch ==
  \/ StoreCall
  \/ \E query \in SearchQueries : SearchTasksCall(query)
  \/ Return

SpecSearch == Init /\ [][NextSearch]_vars

(***************************************************************************)
(* The filters of the tasks page (applyFiltersAndSorting), with an empty   *)
(* search box and no sort chosen.                                          *)
(***************************************************************************)
StatusFilters == {"all", "active", "completed", "assigned", "unassigned"}

PriorityFilters == {"all", "high", "medium", "low"}

\* switch (filterBy) { ... }
FilterByStatus(list, filterBy) ==
  LET Active(task) == ~task.completed
      Completed(task) == task.completed
      Assigned(task) == task.assignedTo # Null
      Unassigned(task) == task.assignedTo = Null
  IN CASE filterBy = "active" -> SelectSeq(list, Active)
       [] filterBy = "completed" -> SelectSeq(list, Completed)
       [] filterBy = "assigned" -> SelectSeq(list, Assigned)
       [] filterBy = "unassigned" -> SelectSeq(list, Unassigned)
       [] OTHER -> list

\* a priority filter that keeps the first task of the priority only
FilterByPriority_FirstOnly(list, priorityFilter) ==
  LET Chosen(task) == task.priority = priorityFilter
  IN IF priorityFilter # "all"
     THEN IF SelectSeq(list, Chosen) = <<>>
          THEN <<>>
          ELSE <<Head(SelectSeq(list, Chosen))>>
     ELSE list

\* if (priorityFilter !== 'all') tasks = tasks.filter(...)
FilterByPriority(list, priorityFilter) ==
  LET Chosen(task) == task.priority = priorityFilter
  IN IF priorityFilter # "all" THEN SelectSeq(list, Chosen) ELSE list

\* the status filter, then the priority filter
ApplyFilters(allTasks, filterBy, priorityFilter) ==
  FilterByPriority(FilterByStatus(allTasks, filterBy), priorityFilter)

ApplyFiltersCall(allTasks, filterBy, priorityFilter) ==
  /\ returned' = [call |-> "applyFilters", allTasks |-> allTasks,
                  filterBy |-> filterBy, priorityFilter |-> priorityFilter,
                  value |-> ApplyFilters(allTasks, filterBy, priorityFilter)]
  /\ UNCHANGED <<engine, pending, results>>

NextFilter ==
  \/ /\ returned = NoCall
     /\ \E allTasks \in TaskLists, filterBy \in StatusFilters,
           priorityFilter \in PriorityFilters :
          ApplyFiltersCall(allTasks, filterBy, priorityFilter)
  \/ Return

SpecFilter == Init /\ [][NextFilter]_vars

(***************************************************************************)
(* Identifiers: the id made from a counter value, and the validators.      *)
(***************************************************************************)
MaxCounter == 1000

\* the values a counter takes: it starts at 1 and grows by one per record
CounterValues == 1..MaxCounter

\* /^W\d{3}$/.test(id), /^T\d{3}$/.test(id)
ValidateId(prefix, id) ==
  /\ Len(id) = 4
  /\ id[1] = prefix
  /\ \A k \in 2..4 : \E d \in DOMAIN DigitChars : DigitChars[d] = id[k]

validateWorkerId(id) == ValidateId("W", id)

validateTaskId(id) == ValidateId("T", id)

\* addWorker / addTask make the id of the new record from the counter; the
\* caller then asks the validator about that id
IssueWorkerIdCall(n) ==
  /\ returned' = [call |-> "issueId", prefix |-> "W", counter |-> n,
                  id |-> FormatId("W", n),
                  valid |-> validateWorkerId(FormatId("W", n))]
  /\ UNCHANGED <<engine, pending, results>>

IssueTaskIdCall(n) ==
  /\ returned' = [call |-> "issueId", prefix |-> "T", counter |-> n,
                  id |-> FormatId("T", n),
                  valid |-> validateTaskId(FormatId("T", n))]
  /\ UNCHANGED <<engine, pending, results>>

NextIds ==
  \/ /\ returned = NoCall
     /\ \E n \in CounterValues : IssueWorkerIdCall(n)
  \/ /\ returned = NoCall
     /\ \E n \in CounterValues : IssueTaskIdCall(n)
  \/ Return

SpecIds == Init /\ [][NextIds]_vars

(***************************************************************************)
(* The rows of the tasks page: the filtered list, as TaskTable shows it.   *)
(***************************************************************************)
\* showCompleted={filterBy === 'all' || filterBy === 'completed'}
ShowCompleted(filterBy) == filterBy \in {"all", "completed"}

\* const filteredTasks =
\*   showCompleted ? tasks : tasks.filter((task) => !task.completed)
RenderedRows(list, showCompleted) ==
  LET Open(task) == ~task.completed
  IN IF showCompleted THEN list ELSE SelectSeq(list, Open)

RenderTasksPage(allTasks, filterBy, priorityFilter) ==
  /\ returned' = [call |-> "renderTasksPage", allTasks |-> allTasks,
                  filterBy |-> filterBy, priorityFilter |-> priorityFilter,
                  rows |-> RenderedRows(
                             ApplyFilters(allTasks, filterBy, priorityFilter),
                             ShowCompleted(filterBy))]
  /\ UNCHANGED <<engine, pending, results>>

NextRender ==
  \/ /\ returned = NoCall
     /\ \E allTasks \in TaskLists, filterBy \in StatusFilters,
           priorityFilter \in PriorityFilters :
          RenderTasksPage(allTasks, filterBy, priorityFilter)
  \/ Return

SpecRender == Init /\ [][NextRender]_vars

(***************************************************************************)
(* The pages.  Every handler reloads what the page shows after a call that *)
(* succeeded, and a call that throws changes nothing, so the records shown *)
(* are those of the engine.  What a handler reports is a function of the   *)
(* state it ran in and of its arguments.                                   *)
(***************************************************************************)
\* String.prototype.trim
RECURSIVE TrimStart(_)
TrimStart(str) ==
  IF str # <<>> /\ Head(str) = " " THEN TrimStart(Tail(str)) ELSE str

RECURSIVE TrimEnd(_)
TrimEnd(str) ==
  IF str # <<>> /\ str[Len(str)] = " "
  THEN TrimEnd(SubSeq(str, 1, Len(str) - 1))
  ELSE str

Trim(str) == TrimEnd(TrimStart(str))

\* what is typed into the name field
TypedNames == WorkerNames \cup {<<" ">>, <<>>}

\* the value of the "Assign to" select when "No assignment" is chosen
NoWorker == <<>>

\* the ids of the options of an "Assign to" select
AvailableWorkerIds ==
  { GetAvailableWorkers[k].id : k \in 1..Len(GetAvailableWorkers) }

\* a table that offers Unassign and Complete on a completed task too
OfferedActions_CompletedToo(task) ==
  IF task.assignedTo # Null THEN {"unassign", "complete"}
  ELSE IF task.completed THEN {}
  ELSE IF Len(GetAvailableWorkers) > 0 THEN {"assign"}
  ELSE {}

\* the controls TaskTable renders in the Actions cell of a task
OfferedActions(task) ==
  IF task.completed THEN {}
  ELSE IF task.assignedTo # Null THEN {"unassign", "complete"}
  ELSE IF Len(GetAvailableWorkers) > 0 THEN {"assign"}
  ELSE {}

HandleAddWorker(typed) ==
  IF Trim(typed) = <<>>
  THEN UNCHANGED vars
  ELSE AddWorker(Trim(typed))

\* the error handleAddTask shows, "none" when it shows a success
HandleAddTaskError(input, assignToWorker) ==
  IF Trim(input.description) = <<>> THEN "description_required"
  ELSE IF input.timeEstimate <= 0 THEN "estimate_not_positive"
  ELSE IF assignToWorker = NoWorker THEN "none"
  ELSE IF MapGet(assignToWorker) = 0 THEN "worker_not_found"
  ELSE IF ~workers[MapGet(assignToWorker)].availability THEN "not_available"
  ELSE IF ExceedsMaximumHours(workers[MapGet(assignToWorker)], input)
    THEN "exceeds_maximum_hours"
  ELSE "none"

\* a handleAddTask that checks the assignment before it adds the task
HandleAddTask_CheckedFirst(input, assignToWorker) ==
  LET error == HandleAddTaskError(input, assignToWorker)
      task == NewTask(FormatId("T", nextTaskId),
                      [input EXCEPT !.description = Trim(@)])
      ws == AddHours(workers, MapGet(assignToWorker), task)
      ts == Append(tasks, [task EXCEPT !.assignedTo = assignToWorker])
  IN /\ UNCHANGED calls
     /\ IF error # "none"
        THEN UNCHANGED engine
        ELSE IF assignToWorker = NoWorker
        THEN AddTask([input EXCEPT !.description = Trim(@)])
        ELSE /\ Len(tasks) < MaxTasks
             /\ nextTaskId' = nextTaskId + 1
             /\ workers' = ws
             /\ tasks' = ts
             /\ stored' = Snapshot(ws, ts, nextWorkerId, nextTaskId + 1)
             /\ UNCHANGED <<workerMap, nextWorkerId>>

\* addTask(...), then assignTaskToWorker(newTask.id, assignToWorker) when a
\* worker is chosen; the deadline typed is a valid date
HandleAddTask(input, assignToWorker) ==
  LET error == HandleAddTaskError(input, assignToWorker)
      task == NewTask(FormatId("T", nextTaskId),
                      [input EXCEPT !.description = Trim(@)])
      added == Append(tasks, task)
      ws == AddHours(workers, MapGet(assignToWorker), task)
      ts == Append(tasks, [task EXCEPT !.assignedTo = assignToWorker])
  IN /\ UNCHANGED calls
     /\ IF error \in {"description_required", "estimate_not_positive"}
        THEN UNCHANGED engine
        ELSE /\ Len(tasks) < MaxTasks
             /\ nextTaskId' = nextTaskId + 1
             /\ UNCHANGED <<workerMap, nextWorkerId>>
             /\ IF assignToWorker = NoWorker \/ error # "none"
                THEN /\ tasks' = added
                     /\ stored' = Snapshot(workers, added, nextWorkerId,
                                           nextTaskId + 1)
                     /\ UNCHANGED workers
                ELSE /\ workers' = ws
                     /\ tasks' = ts
                     /\ stored' = Snapshot(ws, ts, nextWorkerId,
                                           nextTaskId + 1)

\* the button of a worker's row: onToggleAvailability(worker.id,
\* !worker.availability)
HandleToggleAvailability(w) ==
  UpdateWorkerAvailability(workers[w].id, ~workers[w].availability)

\* the "Assign to..." select of a task's row, one of its options chosen
HandleAssignTask(t, workerId) ==
  /\ "assign" \in OfferedActions(tasks[t])
  /\ workerId \in AvailableWorkerIds
  /\ AssignTaskToWorker(tasks[t].id, workerId)

HandleUnassignTask(t) ==
  /\ "unassign" \in OfferedActions(tasks[t])
  /\ UnassignTask(tasks[t].id)

HandleCompleteTask(t) ==
  /\ "complete" \in OfferedActions(tasks[t])
  /\ CompleteTask(tasks[t].id)

NextUI ==
  \/ \E typed \in TypedNames : HandleAddWorker(typed)
  \/ \E input \in TaskInputArgs,
        assignToWorker \in AvailableWorkerIds \cup {NoWorker} :
       HandleAddTask(input, assignToWorker)
  \/ \E w \in 1..Len(workers) : HandleToggleAvailability(w)
  \/ \E t \in 1..Len(tasks), workerId \in AvailableWorkerIds :
       HandleAssignTask(t, workerId)
  \/ \E t \in 1..Len(tasks) : HandleUnassignTask(t)
  \/ \E t \in 1..Len(tasks) : HandleCompleteTask(t)

SpecUI == Init /\ [][NextUI]_vars

(***************************************************************************)
(* Derived quantities used by the properties.                              *)
(***************************************************************************)
\* sum of the first n numbers of the sequence s
RECURSIVE SumSeq(_, _)
SumSeq(s, n) == IF n = 0 THEN 0 ELSE SumSeq(s, n - 1) + s[n]

\* sum of timeEstimate over the tasks of ts bound to worker id
AssignedSum(ts, id) ==
  SumSeq([i \in 1..Len(ts) |->
            IF ts[i].assignedTo = id THEN ts[i].timeEstimate ELSE 0], Len(ts))

\* ... over the tasks bound to worker id with completed = false
ActiveSum(ts, id) ==
  SumSeq([i \in 1..Len(ts) |->
            IF ts[i].assignedTo = id /\ ~ts[i].completed
            THEN ts[i].timeEstimate ELSE 0], Len(ts))

\* ... over the tasks bound to worker id with completed = true
CompletedSum(ts, id) ==
  SumSeq([i \in 1..Len(ts) |->
            IF ts[i].assignedTo = id /\ ts[i].completed
            THEN ts[i].timeEstimate ELSE 0], Len(ts))

TaskIndices == 1..Len(tasks)
WorkerIndices == 1..Len(workers)

\* the sum the capacity check of assignTaskToWorker compares with the ceiling
CheckedSum(t, w) == workers[w].totalAssignedHours + tasks[t].timeEstimate

(***************************************************************************)
(* Properties.  The effect of a call in a state is stated with ENABLED:    *)
(* the calls are deterministic, so ~ENABLED (Call /\ ~Post) says that the  *)
(* call, made in this state, ends in a state satisfying Post, also when it *)
(* changes nothing.                                                        *)
(***************************************************************************)

\* C1: every worker's totalAssignedHours equals the sum of timeEstimate over
\* the tasks assigned to it, completed ones included, after every call.
HoursConservation ==
  \A i \in WorkerIndices :
    workers[i].totalAssignedHours = AssignedSum(tasks, workers[i].id)

\* C1 witness: a worker holds two tasks, one of them completed, and its
\* hours are their sum 4 + (-2).
HoursConservationWitness ==
  \E i \in WorkerIndices : \E a, b \in TaskIndices :
    /\ a # b
    /\ tasks[a].assignedTo = workers[i].id
    /\ tasks[b].assignedTo = workers[i].id
    /\ tasks[a].completed
    /\ tasks[a].timeEstimate = 4
    /\ tasks[b].timeEstimate < 0
    /\ workers[i].totalAssignedHours = 2

\* C2: every worker's totalAssignedHours stays within 0..8, whatever
\* timeEstimate addTask was given.
CapacityCeiling ==
  \A i \in WorkerIndices :
    /\ 0 <= workers[i].totalAssignedHours
    /\ workers[i].totalAssignedHours <= MAX_WORK_HOURS_PER_DAY

\* C3 as stated: for an existing task and an existing available worker,
\* assignTaskToWorker throws the capacity error and changes nothing when
\* hours + estimate > 8, succeeds when hours + estimate <= 8, and leaves the
\* worker at exactly 8 when hours + estimate = 8.
CapacityCheckBoundaryAsStated ==
  \A t \in TaskIndices, w \in WorkerIndices :
    workers[w].availability =>
      /\ AssignError(t, w) =
           (IF CheckedSum(t, w) > MAX_WORK_HOURS_PER_DAY
            THEN "exceeds_maximum_hours" ELSE "none")
      /\ ~ENABLED
           /\ AssignTaskToWorker(tasks[t].id, workers[w].id)
           /\ ~ IF CheckedSum(t, w) > MAX_WORK_HOURS_PER_DAY
                THEN vars' = vars
                ELSE /\ tasks'[t].assignedTo = workers[w].id
                     /\ CheckedSum(t, w) = MAX_WORK_HOURS_PER_DAY
                          => workers'[w].totalAssignedHours
                               = MAX_WORK_HOURS_PER_DAY

\* C3 (amended): as stated, except that the worker is left at exactly 8 in
\* the equal case only when the task was not already assigned to that worker.
CapacityCheckBoundary ==
  \A t \in TaskIndices, w \in WorkerIndices :
    workers[w].availability =>
      /\ AssignError(t, w) =
           (IF CheckedSum(t, w) > MAX_WORK_HOURS_PER_DAY
            THEN "exceeds_maximum_hours" ELSE "none")
      /\ ~ENABLED
           /\ AssignTaskToWorker(tasks[t].id, workers[w].id)
           /\ ~ IF CheckedSum(t, w) > MAX_WORK_HOURS_PER_DAY
                THEN vars' = vars
                ELSE /\ tasks'[t].assignedTo = workers[w].id
                     /\ (CheckedSum(t, w) = MAX_WORK_HOURS_PER_DAY
                           /\ tasks[t].assignedTo # workers[w].id)
                          => workers'[w].totalAssignedHours
                               = MAX_WORK_HOURS_PER_DAY

\* C3 witness: an available worker stands at exactly 8 hours after an
\* assignment that reached the ceiling, and a task that no longer fits waits.
CapacityCheckBoundaryWitness ==
  \E t, u \in TaskIndices, w \in WorkerIndices :
    /\ workers[w].availability
    /\ tasks[t].assignedTo = workers[w].id
    /\ workers[w].totalAssignedHours = MAX_WORK_HOURS_PER_DAY
    /\ tasks[u].assignedTo = Null
    /\ CheckedSum(u, w) > MAX_WORK_HOURS_PER_DAY

\* the worker records other than those at the positions in except are the same
OtherWorkersUnchanged(except) ==
  /\ Len(workers') = Len(workers)
  /\ \A i \in WorkerIndices \ except : workers'[i] = workers[i]

\* the task records other than the one at position t are the same
OtherTasksUnchanged(t) ==
  /\ Len(tasks') = Len(tasks)
  /\ \A i \in TaskIndices \ {t} : tasks'[i] = tasks[i]

\* C4: when task t is assigned to A and assignTaskToWorker(t, B) succeeds
\* with B # A, A's hours decrease by t.timeEstimate, B's increase by it, t is
\* bound to B with its estimate (and every other field) unchanged, and every
\* other worker and task is unchanged.
ReassignmentTransfer ==
  \A t \in TaskIndices, a, b \in WorkerIndices :
    (a # b /\ tasks[t].assignedTo = workers[a].id) =>
      ~ENABLED
        /\ AssignTaskToWorker(tasks[t].id, workers[b].id)
        /\ tasks'[t].assignedTo = workers[b].id
        /\ ~ /\ workers'[a] = [workers[a] EXCEPT !.totalAssignedHours =
                                 @ - tasks[t].timeEstimate]
             /\ workers'[b] = [workers[b] EXCEPT !.totalAssignedHours =
                                 @ + tasks[t].timeEstimate]
             /\ tasks'[t] = [tasks[t] EXCEPT !.assignedTo = workers[b].id]
             /\ tasks'[t].timeEstimate = tasks[t].timeEstimate
             /\ OtherWorkersUnchanged({a, b})
             /\ OtherTasksUnchanged(t)

\* C4 witness: A holds two tasks of 4 hours (8 in all), B holds none, and
\* reassigning one of them to B is possible and leaves both at 4.
ReassignmentTransferWitness ==
  \E t \in TaskIndices, a, b \in WorkerIndices :
    /\ a # b
    /\ tasks[t].assignedTo = workers[a].id
    /\ workers[a].totalAssignedHours = 8
    /\ workers[b].totalAssignedHours = 0
    /\ ENABLED
         /\ AssignTaskToWorker(tasks[t].id, workers[b].id)
         /\ tasks'[t].assignedTo = workers[b].id
         /\ workers'[a].totalAssignedHours = 4
         /\ workers'[b].totalAssignedHours = 4

\* C5: when task t is assigned to A, assignTaskToWorker(t, B) with B # A
\* succeeds if and only if B exists, B is available and B's hours plus t's
\* estimate do not exceed 8, whatever A's availability and hours; after
\* success A's hours count none of t's.
ReassignmentGuard ==
  \A t \in TaskIndices, a \in WorkerIndices :
    tasks[t].assignedTo = workers[a].id =>
      \A workerId \in WorkerIdArgs \ {workers[a].id} :
        IF \E b \in WorkerIndices :
             /\ workers[b].id = workerId
             /\ workers[b].availability
             /\ CheckedSum(t, b) <= MAX_WORK_HOURS_PER_DAY
        THEN ~ENABLED
               /\ AssignTaskToWorker(tasks[t].id, workerId)
               /\ ~ /\ tasks'[t].assignedTo = workerId
                    /\ workers'[a].totalAssignedHours
                         = AssignedSum(tasks', workers[a].id)
        ELSE ~ENABLED (AssignTaskToWorker(tasks[t].id, workerId)
                         /\ tasks'[t].assignedTo = workerId)

\* C5 witness: A is unavailable and full with the 8-hour task it
\* holds, and the reassignment of that task to the idle worker B is possible.
ReassignmentGuardWitness ==
  \E t \in TaskIndices, a, b \in WorkerIndices :
    /\ a # b
    /\ tasks[t].assignedTo = workers[a].id
    /\ ~workers[a].availability
    /\ workers[a].totalAssignedHours = MAX_WORK_HOURS_PER_DAY
    /\ ENABLED (AssignTaskToWorker(tasks[t].id, workers[b].id)
                  /\ tasks'[t].assignedTo = workers[b].id
                  /\ workers'[a].totalAssignedHours = 0)

\* the rejection conditions of assignTaskToWorker, on the state
Rejected(taskId, workerId) ==
  \/ \A t \in TaskIndices : tasks[t].id # taskId
  \/ \A w \in WorkerIndices : workers[w].id # workerId
  \/ \E t \in TaskIndices, w \in WorkerIndices :
       /\ tasks[t].id = taskId
       /\ workers[w].id = workerId
       /\ (~workers[w].availability
             \/ CheckedSum(t, w) > MAX_WORK_HOURS_PER_DAY)

\* C6: a rejected assignTaskToWorker (unknown task, unknown worker,
\* unavailable worker, capacity exceeded) changes nothing at all: no worker,
\* no task, no counter, not the persisted snapshot.  A successful one ends
\* with the task bound to the worker and the worker's hours raised by the
\* estimate (unchanged if it held the task), and the snapshot saved.
AtomicAssign ==
  \A taskId \in TaskIdArgs, workerId \in WorkerIdArgs :
    IF Rejected(taskId, workerId)
    THEN ~ENABLED (AssignTaskToWorker(taskId, workerId) /\ vars' # vars)
    ELSE LET t == FindTask(taskId)
             w == MapGet(workerId)
         IN ~ENABLED
              /\ AssignTaskToWorker(taskId, workerId)
              /\ ~ /\ tasks'[t].assignedTo = workerId
                   /\ workers'[w].totalAssignedHours
                        = workers[w].totalAssignedHours
                          + (IF tasks[t].assignedTo = workerId
                             THEN 0 ELSE tasks[t].timeEstimate)
                   /\ stored' = Snapshot(workers', tasks',
                                         nextWorkerId', nextTaskId')
                   /\ UNCHANGED <<workerMap, nextWorkerId, nextTaskId>>

\* C6 witness: an unassigned 4-hour task and a worker at 8 hours (a call
\* that is rejected for capacity), beside a worker on which it fits.
AtomicAssignWitness ==
  \E t \in TaskIndices, w, v \in WorkerIndices :
    /\ tasks[t].assignedTo = Null
    /\ Rejected(tasks[t].id, workers[w].id)
    /\ workers[w].availability
    /\ ~Rejected(tasks[t].id, workers[v].id)

\* C7: assignTaskToWorker on an existing task and an existing worker with
\* availability = false throws the availability error and changes nothing,
\* whatever the hours and the estimate; and no engine call binds a task to a
\* worker that is unavailable when the call is made.
AvailabilityGate ==
  /\ [](\A w \in WorkerIndices, t \in TaskIndices :
          ~workers[w].availability =>
            /\ AssignError(t, w) = "not_available"
            /\ ~ENABLED (AssignTaskToWorker(tasks[t].id, workers[w].id)
                           /\ vars' # vars))
  /\ [][\A t \in 1..Len(tasks'), w \in WorkerIndices :
          (/\ tasks'[t].assignedTo = workers[w].id
           /\ (t \in TaskIndices => tasks[t].assignedTo # workers[w].id))
            => workers[w].availability]_vars

\* C7 witness: an unavailable worker with no hours and an unassigned task
\* that would fit it.
AvailabilityGateWitness ==
  \E t \in TaskIndices, w \in WorkerIndices :
    /\ ~workers[w].availability
    /\ workers[w].totalAssignedHours = 0
    /\ tasks[t].assignedTo = Null
    /\ CheckedSum(t, w) <= MAX_WORK_HOURS_PER_DAY
    /\ tasks[t].timeEstimate > 0

\* C9 as stated: every worker's totalAssignedHours equals the sum of
\* timeEstimate over its tasks that are not completed.
ActiveHoursConsistencyAsStated ==
  \A i \in WorkerIndices :
    workers[i].totalAssignedHours = ActiveSum(tasks, workers[i].id)

\* C9 (amended): every worker's totalAssignedHours equals the sum over its
\* tasks that are not completed plus the sum over its completed tasks:
\* completing a task does not release its hours.
ActiveHoursConsistency ==
  \A i \in WorkerIndices :
    workers[i].totalAssignedHours
      = ActiveSum(tasks, workers[i].id) + CompletedSum(tasks, workers[i].id)

\* C9 witness: a worker at 8 hours holds a completed task of 4 hours and an
\* active one of 4.
ActiveHoursConsistencyWitness ==
  \E i \in WorkerIndices :
    /\ workers[i].totalAssignedHours = 8
    /\ ActiveSum(tasks, workers[i].id) = 4
    /\ CompletedSum(tasks, workers[i].id) = 4

\* C10: completeTask on an existing task sets its completed flag and changes
\* nothing else: not its assignedTo or timeEstimate, no worker, no other
\* task, no counter.
CompleteTaskFrame ==
  \A t \in TaskIndices :
    ~ENABLED
      /\ CompleteTask(tasks[t].id)
      /\ ~ /\ tasks'[t] = [tasks[t] EXCEPT !.completed = TRUE]
           /\ OtherTasksUnchanged(t)
           /\ UNCHANGED <<workers, workerMap, nextWorkerId, nextTaskId>>

\* C10 witness: a completed 8-hour task is still bound to its worker, whose
\* 8 hours still count it.
CompleteTaskFrameWitness ==
  \E t \in TaskIndices, w \in WorkerIndices :
    /\ tasks[t].completed
    /\ tasks[t].assignedTo = workers[w].id
    /\ tasks[t].timeEstimate = 8
    /\ workers[w].totalAssignedHours = 8

\* both calls of the pair have run
PairDone == pending = {} /\ results # {}

Succeeded == {r \in results : r.thrown = "none"}
CapacityRejected == {r \in results : r.thrown = "exceeds_maximum_hours"}

\* C8 as stated: of two assign calls issued together for two different tasks
\* against one available worker, each fitting alone and both not, exactly one
\* succeeds and the other throws the capacity error, in either order, and
\* the worker does not end above 8 hours.
ConcurrentAssignmentAsStated ==
  PairDone =>
    /\ Cardinality(Succeeded) = 1
    /\ Cardinality(CapacityRejected) = 1
    /\ \A r \in results :
         workers[MapGet(r.call.workerId)].totalAssignedHours
           <= MAX_WORK_HOURS_PER_DAY

\* C8 (amended): the same, for two tasks neither of which the worker already
\* holds when the calls are issued; whatever the tasks, the two calls never
\* leave the worker above 8 hours.
ConcurrentAssignment ==
  PairDone =>
    /\ (\A r \in results : r.call.holder # r.call.workerId) =>
         /\ Cardinality(Succeeded) = 1
         /\ Cardinality(CapacityRejected) = 1
    /\ \A r \in results :
         workers[MapGet(r.call.workerId)].totalAssignedHours
           <= MAX_WORK_HOURS_PER_DAY

\* C8 witness: both calls of a pair for two tasks that were unassigned have
\* run; one succeeded, the other threw the capacity error.
ConcurrentAssignmentWitness ==
  /\ PairDone
  /\ \A r \in results : r.call.holder = Null
  /\ Cardinality(Succeeded) = 1
  /\ Cardinality(CapacityRejected) = 1

\* C11: unassignTask on a task with assignedTo = null changes nothing, the
\* persisted snapshot included; on a task assigned to w it subtracts exactly
\* the task's timeEstimate from w's hours, sets assignedTo to null and changes
\* nothing else.  Hence a successful assignment of an unassigned task followed
\* by unassignTask restores the workers and the tasks as they were, and a
\* second unassignTask after the first changes nothing.  Along every
\* behaviour, a step that unbinds a task lowers its holder's hours by the
\* task's estimate.
UnassignEffect ==
  /\ [](\A t \in TaskIndices :
          IF tasks[t].assignedTo = Null
          THEN ~ENABLED (UnassignTask(tasks[t].id) /\ vars' # vars)
          ELSE LET w == MapGet(tasks[t].assignedTo)
               IN ~ENABLED
                    /\ UnassignTask(tasks[t].id)
                    /\ ~ /\ tasks'[t] = [tasks[t] EXCEPT !.assignedTo = Null]
                         /\ OtherTasksUnchanged(t)
                         /\ workers'[w] =
                              [workers[w] EXCEPT !.totalAssignedHours =
                                 @ - tasks[t].timeEstimate]
                         /\ OtherWorkersUnchanged({w})
                         /\ UNCHANGED <<workerMap, nextWorkerId, nextTaskId>>
                         /\ (~ENABLED (UnassignTask(tasks[t].id)
                                         /\ vars' # vars))')
  /\ [](\A t \in TaskIndices, w \in WorkerIndices :
          \A ws0 \in {workers}, ts0 \in {tasks} :
            (tasks[t].assignedTo = Null /\ AssignError(t, w) = "none") =>
              ~ENABLED
                /\ AssignTaskToWorker(tasks[t].id, workers[w].id)
                /\ (ENABLED (UnassignTask(tasks[t].id)
                               /\ ~(workers' = ws0 /\ tasks' = ts0)))')
  /\ [][\A t \in TaskIndices :
          (/\ Len(tasks') = Len(tasks)
           /\ tasks[t].assignedTo # Null
           /\ tasks'[t].assignedTo = Null)
            => LET w == MapGet(tasks[t].assignedTo)
               IN workers'[w].totalAssignedHours
                    = workers[w].totalAssignedHours - tasks[t].timeEstimate]_vars

\* C11 witness: a task of 4 hours is unassigned again after having been
\* assigned (the snapshot was written with it unassigned), beside a task
\* still held by a worker whose hours count it.
UnassignEffectWitness ==
  \E t, u \in TaskIndices, w \in WorkerIndices :
    /\ t # u
    /\ tasks[t].assignedTo = Null
    /\ tasks[t].timeEstimate = 4
    /\ stored.present
    /\ stored.workers = workers
    /\ \A v \in WorkerIndices : workers[v].totalAssignedHours
                                  = AssignedSum(tasks, workers[v].id)
    /\ tasks[u].assignedTo = workers[w].id
    /\ workers[w].totalAssignedHours = tasks[u].timeEstimate
    /\ ENABLED (UnassignTask(tasks[u].id)
                  /\ workers'[w].totalAssignedHours = 0)

\* C12: updateWorkerAvailability on a known worker changes that worker's
\* availability flag and nothing else: not its hours, no task, no other
\* worker, no counter; on an unknown id it changes nothing at all.  Along
\* every behaviour, a step that changes a worker's availability leaves its
\* hours and every task as they were, so that a worker may be unavailable
\* while holding tasks.
AvailabilityFrame ==
  /\ [](\A id \in WorkerIdArgs, availability \in BOOLEAN :
          LET w == MapGet(id)
          IN IF w = 0
             THEN ~ENABLED (UpdateWorkerAvailability(id, availability)
                              /\ vars' # vars)
             ELSE ~ENABLED
                    /\ UpdateWorkerAvailability(id, availability)
                    /\ ~ /\ workers'[w] =
                              [workers[w] EXCEPT !.availability = availability]
                         /\ OtherWorkersUnchanged({w})
                         /\ UNCHANGED <<tasks, workerMap,
                                        nextWorkerId, nextTaskId>>)
  /\ [][\A w \in WorkerIndices :
          (/\ Len(workers') = Len(workers)
           /\ workers'[w].availability # workers[w].availability)
            => /\ workers'[w].totalAssignedHours
                    = workers[w].totalAssignedHours
               /\ tasks' = tasks]_vars

\* C12 witness: a worker made unavailable still holds a task of 8 hours and
\* its 8 hours, and an id that belongs to no worker can be passed.
AvailabilityFrameWitness ==
  \E t \in TaskIndices, w \in WorkerIndices :
    /\ ~workers[w].availability
    /\ tasks[t].assignedTo = workers[w].id
    /\ ~tasks[t].completed
    /\ workers[w].totalAssignedHours = 8
    /\ \E id \in WorkerIdArgs : MapGet(id) = 0

\* the ids of the records of a list
IdsOf(list) == {list[i].id : i \in 1..Len(list)}

\* no two records of the list carry the same id
DistinctIds(list) ==
  \A i, j \in 1..Len(list) : list[i].id = list[j].id => i = j

\* C13: both counters start at 1; all worker ids are pairwise distinct and
\* all task ids are pairwise distinct, and the id the next addWorker
\* (addTask) would issue is carried by no worker (task); a step changes
\* nextWorkerId only by adding 1 to it while appending one worker that
\* carries the id made from the old value, and likewise nextTaskId with
\* tasks, so that neither counter ever decreases.
IdentifierAllocation ==
  /\ nextWorkerId = 1
  /\ nextTaskId = 1
  /\ [](/\ DistinctIds(workers)
        /\ DistinctIds(tasks)
        /\ FormatId("W", nextWorkerId) \notin IdsOf(workers)
        /\ FormatId("T", nextTaskId) \notin IdsOf(tasks))
  /\ [][/\ (nextWorkerId' # nextWorkerId \/ Len(workers') # Len(workers)) =>
             /\ nextWorkerId' = nextWorkerId + 1
             /\ Len(workers') = Len(workers) + 1
             /\ workers'[Len(workers')].id = FormatId("W", nextWorkerId)
             /\ nextTaskId' = nextTaskId
        /\ (nextTaskId' # nextTaskId \/ Len(tasks') # Len(tasks)) =>
             /\ nextTaskId' = nextTaskId + 1
             /\ Len(tasks') = Len(tasks) + 1
             /\ tasks'[Len(tasks')].id = FormatId("T", nextTaskId)
             /\ nextWorkerId' = nextWorkerId]_vars

\* C13 witness: two workers and two tasks have been added, with ids W001,
\* W002, T001, T002, and both counters stand at 3.
IdentifierAllocationWitness ==
  /\ Len(workers) = 2
  /\ Len(tasks) = 2
  /\ workers[1].id = <<"W", "0", "0", "1">>
  /\ workers[2].id = <<"W", "0", "0", "2">>
  /\ tasks[1].id = <<"T", "0", "0", "1">>
  /\ tasks[2].id = <<"T", "0", "0", "2">>
  /\ nextWorkerId = 3
  /\ nextTaskId = 3

\* whether initializeData takes the text as a snapshot: there is one, and
\* the try block runs to its end
Accepted(text) == HasText(text) /\ ~LoadThrows(text)

\* C14: when initializeData loads a snapshot it accepts, each counter the
\* snapshot holds is restored as persisted, and the id the next addWorker
\* (addTask) issues is carried by no worker (task) of the loaded state.
NoIdCollisionAfterLoad ==
  \A text \in {GetItem} :
    Accepted(text) =>
      ~ENABLED
        /\ InitializeData
        /\ ~ /\ Member(text, "nextWorkerId").t = "number"
                  => nextWorkerId' = Member(text, "nextWorkerId").v
             /\ Member(text, "nextTaskId").t = "number"
                  => nextTaskId' = Member(text, "nextTaskId").v
             /\ FormatId("W", nextWorkerId') \notin IdsOf(workers')
             /\ FormatId("T", nextTaskId') \notin IdsOf(tasks')

\* whether the text is a whole snapshot: an object with both lists and both
\* counters
WholeSnapshot(text) ==
  /\ Member(text, "workers").t = "array"
  /\ Member(text, "tasks").t = "array"
  /\ Member(text, "nextWorkerId").t = "number"
  /\ Member(text, "nextTaskId").t = "number"

\* the engine holds nothing and both counters are 1
EmptyEngine ==
  /\ workers = <<>>
  /\ tasks = <<>>
  /\ workerMap = <<>>
  /\ nextWorkerId = 1
  /\ nextTaskId = 1

\* C16: when the store holds no snapshot, or a text that is unparseable,
\* corrupt or partial, initializeData leaves the engine empty with both
\* counters at 1, whatever the engine held before the call.
LoadFallback ==
  \A text \in {GetItem} :
    ~WholeSnapshot(text) => ~ENABLED (InitializeData /\ ~EmptyEngine')

memory == <<workers, tasks, workerMap, nextWorkerId, nextTaskId>>

\* the call whose saveData fails leaves in memory what the same call leaves
\* when saveData succeeds (m), and leaves the store as it was
SameInMemory(FailingCall, m) ==
  ENABLED (FailingCall /\ memory' = m /\ stored' = stored)

SnapshotAfter == Snapshot(workers', tasks', nextWorkerId', nextTaskId')

\* C18: the store holds the snapshot of the engine state whenever the
\* engine has ever been changed; each mutator that returns leaves in the
\* store the snapshot of the state it leaves in memory, and a call that is
\* rejected (unknown id, unavailable worker, capacity) or an unassignTask on
\* an unassigned task leaves the store as it was; along every behaviour a
\* step that changes the engine state leaves its snapshot in the store.
PersistOnMutation ==
  /\ [](IF stored.present
        THEN stored = Snapshot(workers, tasks, nextWorkerId, nextTaskId)
        ELSE EmptyEngine)
  /\ [](/\ \A name \in WorkerNames :
             ~ENABLED (AddWorker(name) /\ stored' # SnapshotAfter)
        /\ \A input \in TaskInputs :
             ~ENABLED (AddTask(input) /\ stored' # SnapshotAfter)
        /\ \A id \in WorkerIdArgs, availability \in BOOLEAN :
             ~ENABLED (UpdateWorkerAvailability(id, availability)
                         /\ stored' # (IF id \in IdsOf(workers)
                                       THEN SnapshotAfter ELSE stored))
        /\ \A taskId \in TaskIdArgs :
             /\ \A workerId \in WorkerIdArgs :
                  ~ENABLED (AssignTaskToWorker(taskId, workerId)
                              /\ stored' # (IF Rejected(taskId, workerId)
                                            THEN stored ELSE SnapshotAfter))
             /\ ~ENABLED (UnassignTask(taskId)
                            /\ stored' #
                                 (IF \E t \in TaskIndices :
                                       /\ tasks[t].id = taskId
                                       /\ tasks[t].assignedTo # Null
                                  THEN SnapshotAfter ELSE stored))
             /\ ~ENABLED (CompleteTask(taskId)
                            /\ stored' # (IF taskId \in IdsOf(tasks)
                                          THEN SnapshotAfter ELSE stored)))
  /\ [][memory' # memory => stored' = SnapshotAfter]_vars

\* C18 witness: the store holds the snapshot of an engine in which a task
\* has been assigned and completed and another is unassigned, so that
\* unassigning the latter is a call that changes nothing.
PersistOnMutationWitness ==
  /\ stored.present
  /\ stored.tasks = tasks
  /\ stored.workers = workers
  /\ \E t, u \in TaskIndices :
       /\ tasks[t].assignedTo # Null
       /\ tasks[t].completed
       /\ tasks[u].assignedTo = Null
       /\ ENABLED (UnassignTask(tasks[u].id) /\ stored' = stored)

\* what the validation of addTask is to reject: an empty description or an
\* estimate that is not positive (a deadline is an instant in the model)
InvalidTaskInput(input) ==
  input.description = <<>> \/ input.timeEstimate <= 0

\* C19: addTask with an empty description or a timeEstimate <= 0 changes
\* neither the task list nor the task counter nor the store; with any other
\* input it appends exactly one task, with the id made from the counter,
\* assignedTo = null and completed = false.
AddTaskValidation ==
  \A input \in TaskInputArgs :
    IF InvalidTaskInput(input)
    THEN ~ENABLED (AddTask(input)
                     /\ (tasks' # tasks \/ nextTaskId' # nextTaskId
                           \/ stored' # stored))
    ELSE ~ENABLED
           /\ AddTask(input)
           /\ ~ /\ tasks' = Append(tasks, tasks'[Len(tasks')])
                /\ tasks'[Len(tasks')].id = FormatId("T", nextTaskId)
                /\ tasks'[Len(tasks')].id \notin IdsOf(tasks)
                /\ tasks'[Len(tasks')].assignedTo = Null
                /\ tasks'[Len(tasks')].completed = FALSE

\* C20: addWorker with an empty name changes neither the worker list nor the
\* worker index nor the worker counter nor the store; with any other name it
\* appends exactly one worker, with the id made from the counter,
\* availability = true and totalAssignedHours = 0.
AddWorkerValidation ==
  \A name \in WorkerNameArgs :
    IF name = <<>>
    THEN ~ENABLED (AddWorker(name)
                     /\ (workers' # workers \/ workerMap' # workerMap
                           \/ nextWorkerId' # nextWorkerId
                           \/ stored' # stored))
    ELSE ~ENABLED
           /\ AddWorker(name)
           /\ ~ /\ workers' = Append(workers, workers'[Len(workers')])
                /\ workers'[Len(workers')].id = FormatId("W", nextWorkerId)
                /\ workers'[Len(workers')].id \notin IdsOf(workers)
                /\ workers'[Len(workers')].name = name
                /\ workers'[Len(workers')].availability = TRUE
                /\ workers'[Len(workers')].totalAssignedHours = 0

\* C21: every task in the store has a timeEstimate within [0.5, 8] hours
\* (hours are whole numbers here, so 0.5 <= e is written 1 <= 2 * e).
TaskEstimateRange ==
  \A i \in TaskIndices :
    /\ 1 <= 2 * tasks[i].timeEstimate
    /\ tasks[i].timeEstimate <= MAX_WORK_HOURS_PER_DAY

\* C22: completeTask on an existing task leaves it completed whatever its
\* state was, and changes nothing at all when it was completed already; and
\* no engine call takes a completed task back to completed = false.
CompletionOneWay ==
  /\ [](\A i \in TaskIndices :
         /\ ~ENABLED (CompleteTask(tasks[i].id) /\ ~tasks'[i].completed)
         /\ tasks[i].completed =>
              ~ENABLED (CompleteTask(tasks[i].id) /\ engine' # engine))
  /\ [][\A i \in TaskIndices :
          tasks[i].completed =>
            /\ i <= Len(tasks')
            /\ tasks'[i].id = tasks[i].id
            /\ tasks'[i].completed]_vars

\* a completed task that is bound to a worker
CompletionOneWayWitness ==
  \E i \in TaskIndices : tasks[i].completed /\ tasks[i].assignedTo # Null

\* C23: assignTaskToWorker and unassignTask do not look at the completed
\* flag: for a task that is not completed, the call made after completing
\* the task meets the same guard, and leaves the same workers and the same
\* binding of the task, as the call made without completing it.
CompletedNotLocked ==
  [](\A i \in TaskIndices : \A taskId \in {tasks[i].id} :
       ~tasks[i].completed =>
         /\ \A workerId \in WorkerIdArgs :
              /\ \A error \in {AssignError(i, MapGet(workerId))} :
                   ~ENABLED
                      /\ CompleteTask(taskId)
                      /\ (AssignError(i, MapGet(workerId)) # error)'
              /\ ~ENABLED
                   /\ AssignTaskToWorker(taskId, workerId)
                   /\ \E ws \in {workers'}, holder \in {tasks'[i].assignedTo} :
                        ~ENABLED
                           /\ CompleteTask(taskId)
                           /\ (ENABLED
                                 /\ AssignTaskToWorker(taskId, workerId)
                                 /\ workers' = ws
                                 /\ tasks'[i].assignedTo = holder
                                 /\ tasks'[i].completed)'
         /\ ~ENABLED
              /\ UnassignTask(taskId)
              /\ \E ws \in {workers'}, holder \in {tasks'[i].assignedTo} :
                   ~ENABLED
                      /\ CompleteTask(taskId)
                      /\ (ENABLED
                            /\ UnassignTask(taskId)
                            /\ workers' = ws
                            /\ tasks'[i].assignedTo = holder
                            /\ tasks'[i].completed)')

\* a completed task that an assignTaskToWorker call can bind to another
\* worker, and a completed task that unassignTask can unbind
CompletedNotLockedWitness ==
  /\ \E i \in TaskIndices, workerId \in WorkerIdArgs :
       /\ tasks[i].completed
       /\ ENABLED (AssignTaskToWorker(tasks[i].id, workerId)
                     /\ tasks'[i].assignedTo # tasks[i].assignedTo)
  /\ \E i \in TaskIndices :
       /\ tasks[i].completed
       /\ ENABLED (UnassignTask(tasks[i].id) /\ tasks'[i].assignedTo = Null
                     /\ workers' # workers)

\* C24: the list getAvailableWorkers returns holds exactly the workers with
\* availability = true and totalAssignedHours < 8, each once, in the order
\* they have in the registry; a worker at exactly 8 hours, or one that is
\* not available, is not in it.
AvailableWorkersListing ==
  returned.call = "getAvailableWorkers" =>
    LET listed == returned.value
        Wanted(i) == workers[i].availability
                       /\ workers[i].totalAssignedHours < 8
    IN /\ \A k \in 1..Len(listed) :
            \E i \in WorkerIndices : Wanted(i) /\ listed[k] = workers[i]
       /\ \A i \in WorkerIndices :
            Wanted(i) => \E k \in 1..Len(listed) : listed[k] = workers[i]
       /\ Len(listed) = Cardinality({i \in WorkerIndices : Wanted(i)})
       /\ \A k, l \in 1..Len(listed) :
            k < l => \E i, j \in WorkerIndices :
                       i < j /\ listed[k] = workers[i]
                             /\ listed[l] = workers[j]
       /\ \A i \in WorkerIndices :
            (workers[i].totalAssignedHours = 8 \/ ~workers[i].availability)
              => \A k \in 1..Len(listed) : listed[k].id # workers[i].id

\* the call has returned the second worker alone, the first one being
\* available with a day of exactly 8 hours; and it has returned nobody, one
\* worker being full and the other not available
AvailableWorkersListingWitness ==
  /\ returned.call = "getAvailableWorkers"
  /\ Len(workers) = 2
  /\ workers[1].availability
  /\ workers[1].totalAssignedHours = 8
  /\ workers[2].availability
  /\ returned.value = <<workers[2]>>

\* the number of places of the list that hold the task
Occurrences(list, task) ==
  Cardinality({ k \in 1..Len(list) : list[k] = task })

OccursIn(field, query) ==
  \E from \in 1..(Len(field) + 1) :
    \A k \in 1..Len(query) :
      /\ from + k - 1 <= Len(field)
      /\ ToLowerChar(field[from + k - 1]) = ToLowerChar(query[k])

\* C26: the list searchTasks returns holds exactly the tasks in whose
\* description, id or non-null assignedTo the query occurs, letter case
\* apart, each once and in the order of the store; an unassigned task is
\* never returned on account of its assignedTo; the call leaves the store
\* as it was.
SearchTasksResult ==
  /\ [](returned.call = "searchTasks" =>
          LET found == returned.value
              query == returned.query
              Wanted(i) ==
                \/ OccursIn(tasks[i].description, query)
                \/ OccursIn(tasks[i].id, query)
                \/ /\ tasks[i].assignedTo # Null
                   /\ OccursIn(tasks[i].assignedTo, query)
          IN /\ \A k \in 1..Len(found) :
                  \E i \in TaskIndices : Wanted(i) /\ found[k] = tasks[i]
             /\ \A i \in TaskIndices :
                  Wanted(i) => \E k \in 1..Len(found) : found[k] = tasks[i]
             /\ Len(found) = Cardinality({i \in TaskIndices : Wanted(i)})
             /\ \A k, l \in 1..Len(found) :
                  k < l => \E i, j \in TaskIndices :
                             i < j /\ found[k] = tasks[i]
                                   /\ found[l] = tasks[j])
  /\ [][returned'.call = "searchTasks" => engine' = engine]_vars

\* the search for "ll" has returned the second task alone, for its
\* description "Hall", the first task being unassigned; and the search for
\* "W001" has returned both tasks, in the order of the store
SearchTasksResultWitness ==
  /\ returned.call = "searchTasks"
  /\ Len(tasks) = 2
  /\ \/ /\ returned.query = <<"l", "l">>
        /\ tasks[1].assignedTo = Null
        /\ tasks[2].assignedTo # Null
        /\ returned.value = <<tasks[2]>>
     \/ /\ returned.query = <<"W", "0", "0", "1">>
        /\ returned.value = tasks

\* C27: for every task list, status filter and priority filter, the list
\* got by the status filter followed by the priority filter is the list got
\* by the priority filter followed by the status filter.
FiltersCommute ==
  returned.call = "applyFilters" =>
    /\ returned.value =
         FilterByPriority(FilterByStatus(returned.allTasks, returned.filterBy),
                          returned.priorityFilter)
    /\ returned.value =
         FilterByStatus(FilterByPriority(returned.allTasks,
                                         returned.priorityFilter),
                        returned.filterBy)

\* the filters "assigned" and "high" have been applied to a list of three
\* tasks of which each filter drops one, and one task is left
FiltersCommuteWitness ==
  /\ returned.call = "applyFilters"
  /\ returned.filterBy = "assigned"
  /\ returned.priorityFilter = "high"
  /\ returned.allTasks = <<SampleTask(1, "high", 10, Null, FALSE),
                           SampleTask(2, "high", 5, FormatId("W", 1), FALSE),
                           SampleTask(5, "medium", 5, FormatId("W", 2), FALSE)>>
  /\ returned.value = <<SampleTask(2, "high", 5, FormatId("W", 1), FALSE)>>

\* workers.find(w => w.id === id): the place of the first worker carrying
\* the id, 0 if there is none
ScanWorkers(id) ==
  IF \E i \in WorkerIndices : workers[i].id = id
  THEN CHOOSE i \in WorkerIndices :
         /\ workers[i].id = id
         /\ \A j \in 1..(i - 1) : workers[j].id # id
  ELSE 0

\* C28: in every state, after initializeData included, the keys of
\* workerMap are the ids of the workers list, no two workers of the list
\* carry the same id, and workerMap.get(id) is the record of the list that
\* a scan for the id finds (undefined when the scan finds none).
WorkerIndexLockstep ==
  /\ DOMAIN workerMap = IdsOf(workers)
  /\ DistinctIds(workers)
  /\ \A id \in WorkerIdArgs : MapGet(id) = ScanWorkers(id)

\* two workers are registered and indexed, and loading the snapshot in the
\* store gives this very list and index again
WorkerIndexLockstepWitness ==
  /\ Len(workers) = 2
  /\ MapGet(workers[2].id) = 2
  /\ stored.present
  /\ ENABLED (InitializeData /\ workers' = workers
                /\ workerMap' = workerMap /\ DOMAIN workerMap' # {})

\* C29: in every state each task's assignedTo is null or the id of a worker
\* of the registry, and of exactly one: a task is bound to no worker or to
\* one, never to more.
OwnershipValidity ==
  \A i \in TaskIndices :
    \/ tasks[i].assignedTo = Null
    \/ Cardinality({ w \in WorkerIndices :
                       workers[w].id = tasks[i].assignedTo }) = 1

\* of two tasks one is bound to the second of two workers and the other to
\* nobody
OwnershipValidityWitness ==
  /\ Len(workers) = 2
  /\ \E i, j \in TaskIndices :
       /\ tasks[i].assignedTo = workers[2].id
       /\ tasks[j].assignedTo = Null

\* C30: of the rejections of assignTaskToWorker that apply to a call, the
\* one reported is the first in the order task not found, worker not found,
\* worker not available, capacity exceeded: an unknown task is reported
\* whatever the worker id is, an unknown worker whenever the task exists,
\* an unavailable worker even when the task would not fit its day either,
\* and the capacity only for a known task and a known, available worker.
ErrorPrecedence ==
  \A taskId \in TaskIdArgs, workerId \in WorkerIdArgs :
    LET error == AssignError(FindTask(taskId), MapGet(workerId))
        taskKnown == taskId \in IdsOf(tasks)
        workerKnown == workerId \in IdsOf(workers)
        task == tasks[CHOOSE i \in TaskIndices : tasks[i].id = taskId]
        worker == workers[CHOOSE i \in WorkerIndices :
                            workers[i].id = workerId]
    IN /\ ~taskKnown => error = "task_not_found"
       /\ (taskKnown /\ ~workerKnown) => error = "worker_not_found"
       /\ (taskKnown /\ workerKnown /\ ~worker.availability)
            => error = "not_available"
       /\ (taskKnown /\ workerKnown /\ worker.availability
             /\ worker.totalAssignedHours + task.timeEstimate > 8)
            => error = "exceeds_maximum_hours"
       /\ (taskKnown /\ workerKnown /\ worker.availability
             /\ worker.totalAssignedHours + task.timeEstimate <= 8)
            => error = "none"

\* a worker is unavailable and a task does not fit its day either, and the
\* call for the two is rejected for the availability; at the same time
\* there are a task id and a worker id that nothing carries
ErrorPrecedenceWitness ==
  /\ \E t \in TaskIndices, w \in WorkerIndices :
       /\ ~workers[w].availability
       /\ workers[w].totalAssignedHours + tasks[t].timeEstimate > 8
       /\ AssignError(t, w) = "not_available"
  /\ \E taskId \in TaskIdArgs, workerId \in WorkerIdArgs :
       /\ taskId \notin IdsOf(tasks)
       /\ workerId \notin IdsOf(workers)
       /\ AssignError(FindTask(taskId), MapGet(workerId)) = "task_not_found"

\* the number written by the first n of the digits
RECURSIVE DecimalValue(_, _)
DecimalValue(digits, n) ==
  IF n = 0 THEN 0
  ELSE 10 * DecimalValue(digits, n - 1)
         + (CHOOSE d \in 0..9 : DigitChars[d + 1] = digits[n])

\* C31: for every counter value, values above 999 included, the id issued
\* is the prefix letter followed by at least three digits that write the
\* counter, none cut off, and the validator of its kind accepts it.
IssuedIdsWellFormed ==
  returned.call = "issueId" =>
    /\ Len(returned.id) >= 4
    /\ returned.id[1] = returned.prefix
    /\ DecimalValue(Tail(returned.id), Len(returned.id) - 1) = returned.counter
    /\ returned.valid

\* C32: the table offers no action on a completed task, Unassign and
\* Complete only on a task that is bound and not completed, and Assign
\* only, with the available workers as targets, on a task that is unbound
\* and not completed.  Hence no step of a run driven through the pages
\* binds a task that was bound, completes a task that was unbound, or
\* changes the assignedTo of a completed task.
ActionGuards ==
  /\ [](\A t \in TaskIndices :
         /\ tasks[t].completed => OfferedActions(tasks[t]) = {}
         /\ (~tasks[t].completed /\ tasks[t].assignedTo # Null)
              => OfferedActions(tasks[t]) = {"unassign", "complete"}
         /\ (~tasks[t].completed /\ tasks[t].assignedTo = Null)
              => /\ OfferedActions(tasks[t]) \subseteq {"assign"}
                 /\ \A workerId \in WorkerIdArgs :
                      ENABLED HandleAssignTask(t, workerId)
                        => \E w \in WorkerIndices :
                             /\ workers[w].id = workerId
                             /\ workers[w].availability
                             /\ workers[w].totalAssignedHours < 8)
  /\ [][\A t \in TaskIndices :
          /\ tasks[t].assignedTo # Null
               => tasks'[t].assignedTo \in {tasks[t].assignedTo, Null}
          /\ (tasks'[t].completed /\ ~tasks[t].completed)
               => tasks[t].assignedTo # Null
          /\ tasks[t].completed
               => tasks'[t].assignedTo = tasks[t].assignedTo]_vars

\* a completed task is bound to a worker, next to a task that is not
\* completed and not bound while a worker is available
ActionGuardsWitness ==
  \E t, u \in TaskIndices :
    /\ tasks[t].completed
    /\ tasks[t].assignedTo # Null
    /\ ~tasks[u].completed
    /\ tasks[u].assignedTo = Null
    /\ OfferedActions(tasks[u]) = {"assign"}

\* the tasks bound to the worker are all completed and fill its day
FullAndDone(w) ==
  /\ workers[w].totalAssignedHours = 8
  /\ CompletedSum(tasks, workers[w].id) = 8
  /\ ActiveSum(tasks, workers[w].id) = 0

\* C33: in a run driven through the pages, the Complete button leaves the
\* workers' hours as they are; the estimates of a worker's completed tasks
\* stay counted in its hours and their sum never goes down; and a worker
\* whose tasks total 8 hours and are all completed stays so and is not
\* among the workers getAvailableWorkers returns.
CompletedHoursKept ==
  /\ [](\A t \in TaskIndices :
         ~ENABLED (HandleCompleteTask(t) /\ workers' # workers))
  /\ [](\A w \in WorkerIndices :
         /\ workers[w].totalAssignedHours = AssignedSum(tasks, workers[w].id)
         /\ workers[w].totalAssignedHours
              >= CompletedSum(tasks, workers[w].id)
         /\ FullAndDone(w) => workers[w].id \notin AvailableWorkerIds)
  /\ [][\A w \in WorkerIndices :
          /\ CompletedSum(tasks', workers[w].id)
               >= CompletedSum(tasks, workers[w].id)
          /\ FullAndDone(w) => FullAndDone(w)']_vars

\* a worker marked available has a day of 8 hours, all of them of
\* completed tasks, and no worker is offered for assignment
CompletedHoursKeptWitness ==
  \E w \in WorkerIndices :
    /\ FullAndDone(w)
    /\ workers[w].availability
    /\ \E t \in TaskIndices :
         tasks[t].completed /\ tasks[t].assignedTo = workers[w].id
    /\ workers[w].id \notin AvailableWorkerIds

\* the rejections of assignTaskToWorker that handleAddTask can meet
AssignRejections ==
  {"worker_not_found", "not_available", "exceeds_maximum_hours"}

\* C34: when handleAddTask runs with a worker chosen and the assignment is
\* rejected (worker unavailable, or capacity exceeded), an error is shown
\* and the call leaves the new task in the store, unassigned, with the id
\* made from the counter, the task counter advanced by one, every worker
\* as it was, and the snapshot that of this state.
CreateThenAssign ==
  \A input \in TaskInputArgs, assignToWorker \in WorkerIdArgs :
    HandleAddTaskError(input, assignToWorker) \in AssignRejections =>
      ~ENABLED
        /\ HandleAddTask(input, assignToWorker)
        /\ ~ /\ Len(tasks') = Len(tasks) + 1
             /\ SubSeq(tasks', 1, Len(tasks)) = tasks
             /\ tasks'[Len(tasks')].id = FormatId("T", nextTaskId)
             /\ tasks'[Len(tasks')].assignedTo = Null
             /\ ~tasks'[Len(tasks')].completed
             /\ nextTaskId' = nextTaskId + 1
             /\ workers' = workers
             /\ workerMap' = workerMap
             /\ stored' = Snapshot(workers', tasks', nextWorkerId',
                                   nextTaskId')

\* there is room for a task, and a worker offered by the form has too few
\* hours left for a task that can be typed in; another worker is
\* unavailable
CreateThenAssignWitness ==
  /\ Len(tasks) < MaxTasks
  /\ \E input \in TaskInputArgs, assignToWorker \in AvailableWorkerIds :
       /\ input.timeEstimate <= 8
       /\ HandleAddTaskError(input, assignToWorker) = "exceeds_maximum_hours"
       /\ ENABLED (HandleAddTask(input, assignToWorker)
                     /\ tasks'[Len(tasks')].assignedTo = Null)
  /\ \E input \in TaskInputArgs, assignToWorker \in WorkerIdArgs :
       HandleAddTaskError(input, assignToWorker) = "not_available"

\* C35: for every status filter, the rows of the tasks page are exactly the
\* tasks left by the priority filter that satisfy the filter's test, in
\* their order: "assigned" every task with assignedTo # null, "unassigned"
\* every task with assignedTo = null, "completed" every completed task,
\* "active" every task not completed, "all" every task.
StatusFilterDisplay ==
  returned.call = "renderTasksPage" =>
    LET Kept(task) ==
          /\ returned.priorityFilter \in {"all", task.priority}
          /\ CASE returned.filterBy = "assigned" -> task.assignedTo # Null
               [] returned.filterBy = "unassigned" -> task.assignedTo = Null
               [] returned.filterBy = "completed" -> task.completed
               [] returned.filterBy = "active" -> ~task.completed
               [] returned.filterBy = "all" -> TRUE
    IN returned.rows = SelectSeq(returned.allTasks, Kept)

\* C36: no engine call raises the totalAssignedHours of a worker whose
\* availability is false; they stay as they are or go down.
UnavailableOnlySheds ==
  [][\A w \in WorkerIndices :
       ~workers[w].availability
         => workers'[w].totalAssignedHours <= workers[w].totalAssignedHours]_vars

\* C37: for a task already bound to a worker, assignTaskToWorker called
\* again for the same task and worker leaves the worker's hours, the task
\* and every other worker and task as they were, whether the call passes
\* the guards or is rejected.
SameWorkerReassignment ==
  [](\A t \in TaskIndices : \A w \in WorkerIndices :
       tasks[t].assignedTo = workers[w].id =>
         ~ENABLED
            /\ AssignTaskToWorker(tasks[t].id, workers[w].id)
            /\ \/ workers' # workers
               \/ tasks' # tasks
               \/ workerMap' # workerMap)

\* one worker holds a task that still fits its day a second time, so that
\* the repeated call passes the guards, and another worker holds a task
\* for which the repeated call is rejected
SameWorkerReassignmentWitness ==
  /\ \E t \in TaskIndices, w \in WorkerIndices :
       /\ tasks[t].assignedTo = workers[w].id
       /\ tasks[t].timeEstimate > 0
       /\ AssignError(t, w) = "none"
  /\ \E t \in TaskIndices, w \in WorkerIndices :
       /\ tasks[t].assignedTo = workers[w].id
       /\ AssignError(t, w) = "exceeds_maximum_hours"

====
